---- MODULE Spec2Model ----
(***************************************************************************)
(* A model of the LSM storage engine of src/storage_engine.py: MemTable,   *)
(* WAL, SSTable and StorageEngine.                                         *)
(*                                                                         *)
(* Keys are strings in the source; they are modelled by the integers       *)
(* 1..MaxKey with the integer order standing for lexicographic order.      *)
(* Values are JSON scalars, modelled by 1..MaxVal, and Python's None by    *)
(* None.  On such values json.dumps/json.loads is the identity, so a line  *)
(* of a file is kept as the entry it parses to; a line that does not parse *)
(* is kept as a "garbage" line.                                            *)
(***************************************************************************)
EXTENDS Integers, Sequences, FiniteSets, TLC

\* ------------------------------------------------------------- bounds
MaxKey == 2
MaxVal == 2
MaxMemtableSize == 2
MaxWal == 2
MaxClock == 4
MaxShortClock == 2
MaxFaultClock == 1
MaxBrinkClock == 3
MaxSSTables == 2
MaxBatch == 2
MaxFaults == 1
MaxWriters == 2
MaxReplay == 3
MaxKvWal == 2

\* --------------------------------------------------- program constants
\* Python's None: the value MemTable.delete stores as the tombstone.
None == 0
\* `if len(self.sstables) > 10` in _flush_memtable.
CompactionThreshold == 10

Keys == 1..MaxKey
Values == 1..MaxVal
AnyValue == Values \cup {None}

\* ------------------------------------------------------------ helpers
Last(s) == s[Len(s)]

Front(s) == SubSeq(s, 1, Len(s) - 1)

\* dict.__setitem__ on an (Ordered)dict kept as a sequence of items: an
\* existing key keeps its position, a new key goes to the end.
DictSet(items, key, value) ==
    IF \E i \in 1..Len(items) : items[i].key = key
    THEN [i \in 1..Len(items) |->
            IF items[i].key = key THEN [key |-> key, value |-> value]
            ELSE items[i]]
    ELSE Append(items, [key |-> key, value |-> value])

\* dict.get(key): the value, or None when the key is missing.
DictGet(items, key) ==
    IF \E i \in 1..Len(items) : items[i].key = key
    THEN items[CHOOSE i \in 1..Len(items) : items[i].key = key].value
    ELSE None

DictKeys(items) == {items[i].key : i \in 1..Len(items)}

\* Insert one item into a sequence sorted by key, after the items whose key
\* is not greater (a stable insertion).
RECURSIVE InsertSorted(_, _)
InsertSorted(sorted, item) ==
    IF sorted = <<>> THEN <<item>>
    ELSE IF Last(sorted).key <= item.key THEN Append(sorted, item)
    ELSE Append(InsertSorted(Front(sorted), item), Last(sorted))

\* Python's sorted() on a list of (key, value) tuples with distinct keys.
RECURSIVE Sorted(_)
Sorted(items) ==
    IF items = <<>> THEN <<>>
    ELSE InsertSorted(Sorted(Front(items)), Last(items))

IsSortedStrict(items) ==
    \A i \in 1..(Len(items) - 1) : items[i].key < items[i + 1].key

\* ----------------------------------------------------------- MemTable
\* A MemTable that keeps its entries in the order of their first insertion.
MemTable_insertion_order(data) == data

MemTable_sort(data) == Sorted(data)

MemTable_put(data, key, value) == MemTable_sort(DictSet(data, key, value))

MemTable_get(data, key) == DictGet(data, key)

\* A delete that removes the entry of a key the memtable holds and stores
\* the tombstone only for a key it does not hold.
MemTable_delete_or_remove(data, key) ==
    IF key \in DictKeys(data)
    THEN SelectSeq(data, LAMBDA e : e.key # key)
    ELSE MemTable_sort(DictSet(data, key, None))

MemTable_delete(data, key) == MemTable_sort(DictSet(data, key, None))

MemTable_get_range(data, start_key, end_key) ==
    SelectSeq(data, LAMBDA e :
        start_key <= e.key /\ e.key <= end_key /\ e.value # None)

MemTable_is_full(data, max_size) == Len(data) >= max_size

MemTable_get_all(data) == data

MemTable_clear(data) == <<>>

\* ---------------------------------------------------------------- WAL
\* A line of wal.log.  operation is "put" or "delete" for a line that
\* parses, "garbage" for one that does not; nl says whether the line ends
\* with its newline (only the last line of the file can lack it).
WalLine(operation, key, value, nl) ==
    [operation |-> operation, key |-> key, value |-> value, nl |-> nl]

GarbageLine(nl) == WalLine("garbage", 0, None, nl)

WalTailOpen(w) == w # <<>> /\ ~Last(w).nl

\* WAL.append, run to completion: one line json + "\n" written in append
\* mode.  Bytes appended after a line that lacks its newline join that
\* line, and the joined line does not parse.
WAL_append(w, operation, key, value) ==
    IF WalTailOpen(w)
    THEN Append(Front(w), GarbageLine(TRUE))
    ELSE Append(w, WalLine(operation, key, value, TRUE))

\* What WAL.append leaves in the file when it does not complete (the
\* process is killed, or a write/fsync raises): nothing, a strict prefix of
\* the line, the line without its newline, or the whole line.
WalOutcomes == {"nothing", "torn", "nonewline", "whole"}

WAL_append_partial(w, operation, key, value, outcome) ==
    CASE outcome = "nothing" -> w
      [] outcome = "whole" -> WAL_append(w, operation, key, value)
      [] outcome = "torn" ->
            IF WalTailOpen(w) THEN Append(Front(w), GarbageLine(FALSE))
            ELSE Append(w, GarbageLine(FALSE))
      [] OTHER ->
            IF WalTailOpen(w) THEN Append(Front(w), GarbageLine(FALSE))
            ELSE Append(w, WalLine(operation, key, value, FALSE))

\* A replay that skips a line that fails to parse and reads on.
RECURSIVE WAL_replay_skipping(_)
WAL_replay_skipping(w) ==
    IF w = <<>> THEN <<>>
    ELSE IF w[1].operation = "garbage" THEN WAL_replay_skipping(Tail(w))
    ELSE <<w[1]>> \o WAL_replay_skipping(Tail(w))

\* WAL.replay: the lines are parsed in order inside one try block, so the
\* first line that fails to parse ends the loop and the records read so
\* far are returned.
RECURSIVE WAL_replay(_)
WAL_replay(w) ==
    IF w = <<>> THEN <<>>
    ELSE IF w[1].operation = "garbage" THEN <<>>
    ELSE <<w[1]>> \o WAL_replay(Tail(w))

WAL_clear(w) == <<>>

\* ------------------------------------------------------------ SSTable
\* A file name sstable_<timestamp>.dat or sstable_<timestamp>_compacted.dat
\* is the pair <<timestamp, compacted>>.  The order of sorted() on the
\* names (timestamps have the same number of digits): by timestamp, and
\* for one timestamp "." sorts before "_".
FileName(timestamp, compacted) == <<timestamp, compacted>>

NameLess(a, b) == a[1] < b[1] \/ (a[1] = b[1] /\ ~a[2] /\ b[2])

\* SSTable._build_index: key -> offset of its line (the line number here);
\* a later line of the same key replaces the earlier offset.
SSTable_build_index(fs, file_path) ==
    IF file_path \notin DOMAIN fs THEN [k \in {} |-> 0]
    ELSE LET lines == fs[file_path]
             ks == DictKeys(lines)
         IN  [k \in ks |->
                CHOOSE i \in 1..Len(lines) :
                    /\ lines[i].key = k
                    /\ \A j \in (i + 1)..Len(lines) : lines[j].key # k]

SSTable(fs, file_path) ==
    [file_path |-> file_path, index |-> SSTable_build_index(fs, file_path)]

\* SSTable.get: None when the key is not in the index or the read at the
\* offset finds no line, else the value of the line at the offset.  (The
\* engine's list only names files that exist, see SSTablesHaveFiles, so the
\* branch of a missing file is never taken.)
SSTable_get(fs, sst, key) ==
    IF key \notin DOMAIN sst.index THEN None
    ELSE IF sst.file_path \notin DOMAIN fs THEN None
    ELSE IF sst.index[key] > Len(fs[sst.file_path]) THEN None
    ELSE fs[sst.file_path][sst.index[key]].value

\* sorted(self.index.keys()) as a sequence.
RECURSIVE SortedKeys(_)
SortedKeys(ks) ==
    IF ks = {} THEN <<>>
    ELSE LET m == CHOOSE x \in ks : \A y \in ks : x <= y
         IN  <<m>> \o SortedKeys(ks \ {m})

RECURSIVE SSTable_range_of(_, _, _)
SSTable_range_of(fs, sst, ks) ==
    IF ks = <<>> THEN <<>>
    ELSE LET value == SSTable_get(fs, sst, ks[1])
             rest == SSTable_range_of(fs, sst, Tail(ks))
         IN  IF value # None
             THEN <<[key |-> ks[1], value |-> value]>> \o rest
             ELSE rest

SSTable_get_range(fs, sst, start_key, end_key) ==
    SSTable_range_of(fs, sst,
        SortedKeys({k \in DOMAIN sst.index : start_key <= k /\ k <= end_key}))

\* The file SSTable.write leaves when it completes: one line per entry of
\* sorted(data).
SSTable_lines(data) == Sorted(data)

WriteFile(fs, file_path, lines) ==
    [n \in DOMAIN fs \cup {file_path} |->
        IF n = file_path THEN lines ELSE fs[n]]

RemoveFile(fs, file_path) == [n \in DOMAIN fs \ {file_path} |-> fs[n]]

\* SSTable.write: the files after the write, and the SSTable object built
\* from the file it wrote.
SSTable_write(fs, file_path, data) ==
    LET fs2 == WriteFile(fs, file_path, SSTable_lines(data))
    IN  [files |-> fs2, sstable |-> SSTable(fs2, file_path)]

\* ------------------------------------------------------ StorageEngine
\* The engine's state as one record: memtable (MemTable.data, the items in
\* order), wal (the lines of wal.log), sstables (the list of SSTable
\* objects, oldest first), files (the sstable files of the data directory:
\* name -> lines) and clock (the last reading of time.time(), in
\* microseconds).
EngineState(mt, w, ssts, fs, clk) ==
    [memtable |-> mt, wal |-> w, sstables |-> ssts, files |-> fs,
     clock |-> clk]

\* int(time.time() * 1000000): each reading is later than the one before.
ReadClock(clk) == clk + 1

\* sorted() of the sstable file names.
RECURSIVE SortedNames(_)
SortedNames(names) ==
    IF names = {} THEN <<>>
    ELSE LET m == CHOOSE x \in names :
                    \A y \in names \ {x} : NameLess(x, y)
         IN  <<m>> \o SortedNames(names \ {m})

\* A _load_sstables that takes the names as os.listdir gives them, here
\* newest first.
Engine_load_sstables_unsorted(fs) ==
    LET names == SortedNames(DOMAIN fs)
    IN  [i \in 1..Len(names) |-> SSTable(fs, names[Len(names) + 1 - i])]

\* StorageEngine._load_sstables.
Engine_load_sstables(fs) ==
    LET names == SortedNames(DOMAIN fs)
    IN  [i \in 1..Len(names) |-> SSTable(fs, names[i])]

\* StorageEngine._recover_from_wal: the records of WAL.replay applied in
\* order to the (empty) memtable.
RECURSIVE ApplyOperations(_, _)
ApplyOperations(data, operations) ==
    IF operations = <<>> THEN data
    ELSE LET op == operations[1]
             data2 == IF op.operation = "put"
                      THEN MemTable_put(data, op.key, op.value)
                      ELSE IF op.operation = "delete"
                      THEN MemTable_delete(data, op.key)
                      ELSE data
         IN  ApplyOperations(data2, Tail(operations))

Engine_recover_from_wal(data, w) == ApplyOperations(data, WAL_replay(w))

\* An __init__ that truncates the WAL once it has replayed it.
Engine_init_truncating(w, fs, clk) ==
    EngineState(Engine_recover_from_wal(<<>>, w), WAL_clear(w),
                Engine_load_sstables(fs), fs, clk)

\* StorageEngine.__init__ on a data directory holding wal.log = w and the
\* sstable files fs.
Engine_init(w, fs, clk) ==
    EngineState(Engine_recover_from_wal(<<>>, w), w,
                Engine_load_sstables(fs), fs, clk)

\* The merge loop of _compact_sstables_internal: for every sstable, oldest
\* first, and every key of its index, all_data[key] = sstable.get(key).
RECURSIVE MergeKeys(_, _, _, _)
MergeKeys(all_data, fs, sst, ks) ==
    IF ks = <<>> THEN all_data
    ELSE MergeKeys(DictSet(all_data, ks[1], SSTable_get(fs, sst, ks[1])),
                   fs, sst, Tail(ks))

RECURSIVE MergeSSTables(_, _, _)
MergeSSTables(all_data, fs, ssts) ==
    IF ssts = <<>> THEN all_data
    ELSE MergeSSTables(
            MergeKeys(all_data, fs, ssts[1],
                      SortedKeys(DOMAIN ssts[1].index)),
            fs, Tail(ssts))

\* A compaction that writes the tombstones too.
CompactedData_with_tombstones(fs, ssts) == MergeSSTables(<<>>, fs, ssts)

\* [(k, v) for k, v in all_data.items() if v is not None]
CompactedData(fs, ssts) ==
    SelectSeq(MergeSSTables(<<>>, fs, ssts), LAMBDA e : e.value # None)

\* for sstable in self.sstables: os.remove(sstable.file_path), an OSError
\* (the file is already gone) ignored.
RECURSIVE RemoveFiles(_, _)
RemoveFiles(fs, ssts) ==
    IF ssts = <<>> THEN fs
    ELSE RemoveFiles(RemoveFile(fs, ssts[1].file_path), Tail(ssts))

\* StorageEngine._compact_sstables_internal.
Engine_compact_sstables_internal(s) ==
    IF Len(s.sstables) < 2 THEN s
    ELSE LET timestamp == ReadClock(s.clock)
             compacted_path == FileName(timestamp, TRUE)
             written == SSTable_write(s.files, compacted_path,
                                      CompactedData(s.files, s.sstables))
         IN  [s EXCEPT !.clock = timestamp,
                       !.files = RemoveFiles(written.files, s.sstables),
                       !.sstables = <<written.sstable>>]

\* A flush that never runs the compaction.
Engine_flush_memtable_only(s) ==
    IF Len(s.memtable) = 0 THEN s
    ELSE LET timestamp == ReadClock(s.clock)
             written == SSTable_write(s.files, FileName(timestamp, FALSE),
                                      MemTable_get_all(s.memtable))
         IN  [s EXCEPT !.clock = timestamp,
                       !.files = written.files,
                       !.sstables = Append(s.sstables, written.sstable),
                       !.memtable = MemTable_clear(s.memtable),
                       !.wal = WAL_clear(s.wal)]

\* StorageEngine._flush_memtable.
Engine_flush_memtable(s) ==
    IF Len(s.memtable) = 0 THEN s
    ELSE LET timestamp == ReadClock(s.clock)
             sstable_path == FileName(timestamp, FALSE)
             written == SSTable_write(s.files, sstable_path,
                                      MemTable_get_all(s.memtable))
             flushed == [s EXCEPT
                            !.clock = timestamp,
                            !.files = written.files,
                            !.sstables = Append(s.sstables, written.sstable),
                            !.memtable = MemTable_clear(s.memtable),
                            !.wal = WAL_clear(s.wal)]
         IN  IF Len(flushed.sstables) > CompactionThreshold
             THEN Engine_compact_sstables_internal(flushed)
             ELSE flushed

\* StorageEngine._compact_sstables.
Engine_compact_sstables(s) == Engine_compact_sstables_internal(s)

FlushIfFull(s, max_size) ==
    IF MemTable_is_full(s.memtable, max_size)
    THEN Engine_flush_memtable(s)
    ELSE s

\* The outcome of a call: the engine's state after it and how it ended
\* ("ok", or the exception that reached the caller).
Outcome(s, status) == [state |-> s, status |-> status]

\* A put that updates the memtable before it appends to the WAL.
Engine_put_store_first(s, max_size, key, value, fault) ==
    LET stored == [s EXCEPT !.memtable =
                        MemTable_put(s.memtable, key, value)]
    IN  IF fault # "ok"
        THEN Outcome([stored EXCEPT !.wal =
                        WAL_append_partial(s.wal, "put", key, value, fault)],
                     "WalError")
        ELSE Outcome(FlushIfFull(
                        [stored EXCEPT !.wal =
                            WAL_append(s.wal, "put", key, value)],
                        max_size), "ok")

\* How WAL.replay ends: `except (FileNotFoundError, json.JSONDecodeError):
\* pass` and `return operations`, so whatever the lines are the call returns
\* the records read so far and raises nothing.
WAL_replay_outcome(w) == Outcome(WAL_replay(w), "ok")

\* _recover_from_wal and __init__ add no check of their own: the engine is
\* constructed on whatever replay returned.
Engine_init_outcome(w, fs, clk) ==
    Outcome(Engine_init(w, fs, clk), WAL_replay_outcome(w).status)

\* StorageEngine.put.  fault is "ok", or what a WAL.append that raises
\* leaves in the file (WalOutcomes).
Engine_put(s, max_size, key, value, fault) ==
    IF fault # "ok"
    THEN Outcome([s EXCEPT !.wal =
                    WAL_append_partial(s.wal, "put", key, value, fault)],
                 "WalError")
    ELSE LET logged == [s EXCEPT !.wal =
                            WAL_append(s.wal, "put", key, value)]
             stored == [logged EXCEPT !.memtable =
                            MemTable_put(logged.memtable, key, value)]
         IN  Outcome(FlushIfFull(stored, max_size), "ok")

\* StorageEngine.delete.
Engine_delete(s, max_size, key, fault) ==
    IF fault # "ok"
    THEN Outcome([s EXCEPT !.wal =
                    WAL_append_partial(s.wal, "delete", key, None, fault)],
                 "WalError")
    ELSE LET logged == [s EXCEPT !.wal =
                            WAL_append(s.wal, "delete", key, None)]
             stored == [logged EXCEPT !.memtable =
                            MemTable_delete(logged.memtable, key)]
         IN  Outcome(FlushIfFull(stored, max_size), "ok")

\* StorageEngine.get.
RECURSIVE NewestFirst(_, _, _)
NewestFirst(fs, ssts, key) ==
    IF ssts = <<>> THEN None
    ELSE LET value == SSTable_get(fs, Last(ssts), key)
         IN  IF value # None THEN value
             ELSE NewestFirst(fs, Front(ssts), key)

\* A get that asks the SSTables oldest first.
RECURSIVE OldestFirstGet(_, _, _)
OldestFirstGet(fs, ssts, key) ==
    IF ssts = <<>> THEN None
    ELSE LET value == SSTable_get(fs, ssts[1], key)
         IN  IF value # None THEN value
             ELSE OldestFirstGet(fs, Tail(ssts), key)

Engine_get_oldest_first(s, key) ==
    LET value == MemTable_get(s.memtable, key)
    IN  IF value # None THEN value
        ELSE OldestFirstGet(s.files, s.sstables, key)

Engine_get(s, key) ==
    LET value == MemTable_get(s.memtable, key)
    IN  IF value # None THEN value
        ELSE NewestFirst(s.files, s.sstables, key)

\* StorageEngine.get_range.
RECURSIVE Overlay(_, _)
Overlay(result_dict, items) ==
    IF items = <<>> THEN result_dict
    ELSE Overlay(DictSet(result_dict, items[1].key, items[1].value),
                 Tail(items))

RECURSIVE OldestFirst(_, _, _, _, _)
OldestFirst(result_dict, fs, ssts, start_key, end_key) ==
    IF ssts = <<>> THEN result_dict
    ELSE OldestFirst(
            Overlay(result_dict,
                    SSTable_get_range(fs, ssts[1], start_key, end_key)),
            fs, Tail(ssts), start_key, end_key)

Engine_get_range(s, start_key, end_key) ==
    Sorted(Overlay(
        OldestFirst(<<>>, s.files, s.sstables, start_key, end_key),
        MemTable_get_range(s.memtable, start_key, end_key)))

\* A get that flushes the MemTable before it answers.
Engine_get_flushing(s, key) ==
    [state |-> Engine_flush_memtable(s), result |-> Engine_get(s, key)]

\* A call of StorageEngine.get: the engine after it and the value returned.
\* The method assigns to no attribute of the engine, calls no flush and
\* writes no file.
Engine_get_call(s, key) == [state |-> s, result |-> Engine_get(s, key)]

\* A call of StorageEngine.get_range, likewise.
Engine_get_range_call(s, start_key, end_key) ==
    [state |-> s, result |-> Engine_get_range(s, start_key, end_key)]

\* The loop of batch_put over zip(keys, values).
RECURSIVE BatchLoop(_, _, _)
BatchLoop(s, keys, values) ==
    IF keys = <<>> \/ values = <<>> THEN s
    ELSE LET logged == [s EXCEPT !.wal =
                            WAL_append(s.wal, "put", keys[1], values[1])]
             stored == [logged EXCEPT !.memtable =
                            MemTable_put(logged.memtable, keys[1], values[1])]
         IN  BatchLoop(stored, Tail(keys), Tail(values))

\* A batch_put that compares the lengths after its loop.
Engine_batch_put_check_late(s, max_size, keys, values) ==
    IF Len(keys) # Len(values)
    THEN Outcome(BatchLoop(s, keys, values), "ValueError")
    ELSE Outcome(FlushIfFull(BatchLoop(s, keys, values), max_size), "ok")

\* A batch_put without the flush of a full memtable after its loop.
Engine_batch_put_no_flush(s, max_size, keys, values) ==
    IF Len(keys) # Len(values) THEN Outcome(s, "ValueError")
    ELSE Outcome(BatchLoop(s, keys, values), "ok")

\* StorageEngine.batch_put.
Engine_batch_put(s, max_size, keys, values) ==
    IF Len(keys) # Len(values) THEN Outcome(s, "ValueError")
    ELSE Outcome(FlushIfFull(BatchLoop(s, keys, values), max_size), "ok")

\* StorageEngine.batch_put whose WAL.append raises at entry i: the entries
\* before i were appended and stored by the loop, entry i left `fault` in the
\* file, and the exception leaves the loop and the call (no except clause,
\* no flush).
Engine_batch_put_wal_error(s, max_size, keys, values, i, fault) ==
    LET done == BatchLoop(s, SubSeq(keys, 1, i - 1), SubSeq(values, 1, i - 1))
    IN  Outcome([done EXCEPT !.wal =
                    WAL_append_partial(done.wal, "put", keys[i], values[i],
                                       fault)],
                "WalError")

\* StorageEngine.close.
Engine_close(s) == Engine_flush_memtable(s)

\* ------------------------------------------- SSTable.write that raises
\* The sstable files SSTable.write leaves when it raises: os.makedirs or
\* open raised (nothing written), or a write, the flush or the fsync raised
\* (the file opened with 'w' holds a prefix of its lines).
SSTable_write_failures(fs, file_path, data) ==
    LET lines == SSTable_lines(data)
    IN  {fs} \cup {WriteFile(fs, file_path, SubSeq(lines, 1, j)) :
                      j \in 0..Len(lines)}

\* _flush_memtable whose SSTable.write raises: the exception leaves the
\* method at line 233, before self.sstables.append, memtable.clear and
\* wal.clear.
Engine_flush_memtable_write_error(s) ==
    IF Len(s.memtable) = 0 THEN {}
    ELSE LET timestamp == ReadClock(s.clock)
             sstable_path == FileName(timestamp, FALSE)
         IN  {Outcome([s EXCEPT !.clock = timestamp, !.files = fs], "OSError") :
                 fs \in SSTable_write_failures(s.files, sstable_path,
                                               MemTable_get_all(s.memtable))}

\* A compaction that removes the old files before it writes the new one.
Engine_compact_remove_first_write_error(s) ==
    IF Len(s.sstables) < 2 THEN {}
    ELSE LET timestamp == ReadClock(s.clock)
             compacted_path == FileName(timestamp, TRUE)
         IN  {Outcome([s EXCEPT !.clock = timestamp,
                                !.files = RemoveFiles(fs, s.sstables)],
                      "OSError") :
                 fs \in SSTable_write_failures(
                            s.files, compacted_path,
                            CompactedData(s.files, s.sstables))}

\* _compact_sstables_internal whose SSTable.write raises: the exception
\* leaves the method at line 261, before the os.remove loop and the
\* assignment of self.sstables.
Engine_compact_write_error(s) ==
    IF Len(s.sstables) < 2 THEN {}
    ELSE LET timestamp == ReadClock(s.clock)
             compacted_path == FileName(timestamp, TRUE)
         IN  {Outcome([s EXCEPT !.clock = timestamp, !.files = fs], "OSError") :
                 fs \in SSTable_write_failures(
                            s.files, compacted_path,
                            CompactedData(s.files, s.sstables))}

\* The engine after the WAL.append and the MemTable update of a mutation,
\* where it asks memtable.is_full().
Engine_put_stored(s, key, value) ==
    [s EXCEPT !.wal = WAL_append(s.wal, "put", key, value),
              !.memtable = MemTable_put(s.memtable, key, value)]

Engine_delete_stored(s, key) ==
    [s EXCEPT !.wal = WAL_append(s.wal, "delete", key, None),
              !.memtable = MemTable_delete(s.memtable, key)]

\* put(key, value) whose flush raises in SSTable.write.
Engine_put_write_error(s, max_size, key, value) ==
    LET stored == Engine_put_stored(s, key, value)
    IN  IF MemTable_is_full(stored.memtable, max_size)
        THEN Engine_flush_memtable_write_error(stored)
        ELSE {}

\* delete(key) whose flush raises in SSTable.write.
Engine_delete_write_error(s, max_size, key) ==
    LET stored == Engine_delete_stored(s, key)
    IN  IF MemTable_is_full(stored.memtable, max_size)
        THEN Engine_flush_memtable_write_error(stored)
        ELSE {}

\* put(key, value) whose flush goes through and takes the list over the
\* threshold, and whose compaction raises in SSTable.write.
Engine_put_compact_error(s, max_size, key, value) ==
    LET stored == Engine_put_stored(s, key, value)
        flushed == Engine_flush_memtable_only(stored)
    IN  IF /\ MemTable_is_full(stored.memtable, max_size)
           /\ Len(flushed.sstables) > CompactionThreshold
        THEN Engine_compact_write_error(flushed)
        ELSE {}

\* close() whose flush raises in SSTable.write.
Engine_close_write_error(s) == Engine_flush_memtable_write_error(s)

\* ------------------------------------------------- kill and restart
\* What a killed process leaves behind: wal.log, the sstable files and the
\* time.
Durable(w, fs, clk) == [wal |-> w, files |-> fs, clock |-> clk]

\* The directory at the instants of _compact_sstables_internal: while the
\* compacted file is being written (a prefix of its lines is in the file),
\* and after each os.remove.
CompactKill(s) ==
    IF Len(s.sstables) < 2 THEN {}
    ELSE LET timestamp == ReadClock(s.clock)
             compacted_path == FileName(timestamp, TRUE)
             lines == SSTable_lines(CompactedData(s.files, s.sstables))
             written == WriteFile(s.files, compacted_path, lines)
         IN  {Durable(s.wal,
                      WriteFile(s.files, compacted_path, SubSeq(lines, 1, j)),
                      timestamp) : j \in 0..Len(lines)}
             \cup
             {Durable(s.wal,
                      RemoveFiles(written, SubSeq(s.sstables, 1, r)),
                      timestamp) : r \in 1..Len(s.sstables)}

\* The engine and its directory at the instants of
\* _compact_sstables_internal, in the order of the code: before it, while
\* SSTable.write writes the compacted file (a prefix of the lines, up to
\* the whole fsynced file), after each os.remove of the loop over
\* self.sstables, and after `self.sstables = [new_sstable]`.
CompactInstants(s) ==
    IF Len(s.sstables) < 2 THEN {}
    ELSE LET timestamp == ReadClock(s.clock)
             compacted_path == FileName(timestamp, TRUE)
             lines == SSTable_lines(CompactedData(s.files, s.sstables))
             written == SSTable_write(s.files, compacted_path,
                                      CompactedData(s.files, s.sstables))
             started == [s EXCEPT !.clock = timestamp]
         IN  {s}
             \cup {[started EXCEPT !.files =
                        WriteFile(s.files, compacted_path,
                                  SubSeq(lines, 1, j))] : j \in 0..Len(lines)}
             \cup {[started EXCEPT !.files =
                        RemoveFiles(written.files, SubSeq(s.sstables, 1, r))] :
                    r \in 1..Len(s.sstables)}
             \cup {[started EXCEPT
                        !.files = RemoveFiles(written.files, s.sstables),
                        !.sstables = <<written.sstable>>]}

\* The directory at the instants of _flush_memtable: while the new sstable
\* file is being written (the WAL still whole), after WAL.clear, and during
\* the compaction the flush runs.
FlushKill(s) ==
    IF Len(s.memtable) = 0 THEN {}
    ELSE LET timestamp == ReadClock(s.clock)
             sstable_path == FileName(timestamp, FALSE)
             lines == SSTable_lines(MemTable_get_all(s.memtable))
             written == SSTable_write(s.files, sstable_path,
                                      MemTable_get_all(s.memtable))
             flushed == [s EXCEPT
                            !.clock = timestamp,
                            !.files = written.files,
                            !.sstables = Append(s.sstables, written.sstable),
                            !.memtable = MemTable_clear(s.memtable),
                            !.wal = WAL_clear(s.wal)]
         IN  {Durable(s.wal,
                      WriteFile(s.files, sstable_path, SubSeq(lines, 1, j)),
                      timestamp) : j \in 0..Len(lines)}
             \cup {Durable(flushed.wal, flushed.files, timestamp)}
             \cup (IF Len(flushed.sstables) > CompactionThreshold
                   THEN CompactKill(flushed) ELSE {})

\* The engine and its directory at the instants of _flush_memtable, in the
\* order of the code: before it, while SSTable.write writes the file (a
\* prefix of the lines, up to the whole fsynced file), after
\* self.sstables.append, after self.memtable.clear and after
\* self.wal.clear.
FlushInstants(s) ==
    IF Len(s.memtable) = 0 THEN {}
    ELSE LET timestamp == ReadClock(s.clock)
             sstable_path == FileName(timestamp, FALSE)
             lines == SSTable_lines(MemTable_get_all(s.memtable))
             written == SSTable_write(s.files, sstable_path,
                                      MemTable_get_all(s.memtable))
             started == [s EXCEPT !.clock = timestamp]
             appended == [started EXCEPT
                            !.files = written.files,
                            !.sstables = Append(s.sstables, written.sstable)]
             cleared == [appended EXCEPT
                            !.memtable = MemTable_clear(s.memtable)]
             truncated == [cleared EXCEPT !.wal = WAL_clear(s.wal)]
         IN  {s}
             \cup {[started EXCEPT !.files =
                        WriteFile(s.files, sstable_path, SubSeq(lines, 1, j))] :
                    j \in 0..Len(lines)}
             \cup {appended, cleared, truncated}

\* The directory when the process dies inside _flush_memtable after
\* SSTable.write returned (the file whole and fsynced) and before
\* self.wal.clear().
FlushKillBeforeClear(s) ==
    IF Len(s.memtable) = 0 THEN {}
    ELSE LET timestamp == ReadClock(s.clock)
             written == SSTable_write(s.files, FileName(timestamp, FALSE),
                                      MemTable_get_all(s.memtable))
         IN  {Durable(s.wal, written.files, timestamp)}

FlushKillIfFull(s, max_size) ==
    IF MemTable_is_full(s.memtable, max_size) THEN FlushKill(s) ELSE {}

\* The directory at the instants of put(key, value) after its first byte
\* reached the WAL.
PutKill(s, max_size, key, value) ==
    {Durable(WAL_append_partial(s.wal, "put", key, value, o),
             s.files, s.clock) : o \in WalOutcomes \ {"nothing"}}
    \cup
    FlushKillIfFull(
        [s EXCEPT !.wal = WAL_append(s.wal, "put", key, value),
                  !.memtable = MemTable_put(s.memtable, key, value)],
        max_size)

DeleteKill(s, max_size, key) ==
    {Durable(WAL_append_partial(s.wal, "delete", key, None, o),
             s.files, s.clock) : o \in WalOutcomes \ {"nothing"}}
    \cup
    FlushKillIfFull(
        [s EXCEPT !.wal = WAL_append(s.wal, "delete", key, None),
                  !.memtable = MemTable_delete(s.memtable, key)],
        max_size)

\* The directory at the instants of batch_put(keys, values): during the
\* WAL.append of its i-th entry, the entries before it logged and stored,
\* and during the flush after the loop.
BatchKill(s, max_size, keys, values) ==
    IF Len(keys) # Len(values) THEN {}
    ELSE UNION {
            LET before == BatchLoop(s, SubSeq(keys, 1, i - 1),
                                    SubSeq(values, 1, i - 1))
            IN  {Durable(WAL_append_partial(before.wal, "put",
                                            keys[i], values[i], o),
                         s.files, s.clock) : o \in WalOutcomes \ {"nothing"}}
            : i \in 1..Len(keys)}
         \cup FlushKillIfFull(BatchLoop(s, keys, values), max_size)

\* -------------------------------------------------- KeyValueDB (kvdb.py)
\* KeyValueDB.cache: a dict, here a function on the keys it holds.
EmptyCache == [k \in {} |-> None]

CacheSet(cache, key, value) ==
    [k \in DOMAIN cache \cup {key} |-> IF k = key THEN value ELSE cache[k]]

CachePop(cache, key) == [k \in DOMAIN cache \ {key} |-> cache[k]]

RECURSIVE CacheSetAll(_, _, _)
CacheSetAll(cache, keys, values) ==
    IF keys = <<>> \/ values = <<>> THEN cache
    ELSE CacheSetAll(CacheSet(cache, keys[1], values[1]),
                     Tail(keys), Tail(values))

\* A line of KeyValueDB's wal.log; op "torn" is a line cut short by a kill.
KvRecord(op, keys, values) == [op |-> op, keys |-> keys, values |-> values]

KvTorn == KvRecord("torn", <<>>, <<>>)

\* The database object and the two files of its directory; a file that
\* does not exist reads as an empty one.
KvState(cache, db_file, wal_file) ==
    [cache |-> cache, db_file |-> db_file, wal_file |-> wal_file]

\* KeyValueDB._replay_wal: json.loads raises on a torn line, and the handler
\* around the loop ends the replay there.
RECURSIVE KeyValueDB_replay_wal(_, _)
KeyValueDB_replay_wal(cache, lines) ==
    IF lines = <<>> THEN cache
    ELSE LET entry == Head(lines)
         IN  IF entry.op = "torn" THEN cache
             ELSE IF entry.op = "put"
                  THEN KeyValueDB_replay_wal(
                          CacheSet(cache, entry.keys[1], entry.values[1]),
                          Tail(lines))
             ELSE IF entry.op = "delete"
                  THEN KeyValueDB_replay_wal(CachePop(cache, entry.keys[1]),
                                             Tail(lines))
             ELSE KeyValueDB_replay_wal(
                     CacheSetAll(cache, entry.keys, entry.values),
                     Tail(lines))

\* KeyValueDB.__init__ and _load_data: the snapshot, then the WAL replayed
\* over it, then the WAL truncated.
KeyValueDB_load_data(db_file, wal_file) ==
    KvState(KeyValueDB_replay_wal(db_file, wal_file), db_file, <<>>)

KeyValueDB_write_wal(s, operation) ==
    [s EXCEPT !.wal_file = Append(s.wal_file, operation)]

\* KeyValueDB._persist: the snapshot replaced, then the WAL truncated.
KeyValueDB_persist(s) == [s EXCEPT !.db_file = s.cache, !.wal_file = <<>>]

\* "if len(self.cache) % 100 == 0: self._persist()".
PersistEvery == 100

KeyValueDB_persist_periodically(s) ==
    IF Cardinality(DOMAIN s.cache) % PersistEvery = 0
    THEN KeyValueDB_persist(s) ELSE s

Returned(s, result) == [state |-> s, result |-> result]

KeyValueDB_put(s, key, value) ==
    LET logged == KeyValueDB_write_wal(s, KvRecord("put", <<key>>, <<value>>))
        stored == [logged EXCEPT !.cache = CacheSet(logged.cache, key, value)]
    IN  Returned(KeyValueDB_persist_periodically(stored), TRUE)

KeyValueDB_read(s, key) ==
    IF key \in DOMAIN s.cache THEN s.cache[key] ELSE None

KeyValueDB_read_key_range(s, start_key, end_key) ==
    [k \in {x \in DOMAIN s.cache : start_key <= x /\ x <= end_key}
        |-> s.cache[k]]

KeyValueDB_batch_put(s, keys, values) ==
    IF Len(keys) # Len(values) THEN Returned(s, FALSE)
    ELSE LET logged == KeyValueDB_write_wal(
                          s, KvRecord("batch_put", keys, values))
             stored == [logged EXCEPT
                           !.cache = CacheSetAll(logged.cache, keys, values)]
         IN  Returned(KeyValueDB_persist_periodically(stored), TRUE)

KeyValueDB_delete(s, key) ==
    IF key \in DOMAIN s.cache
    THEN LET logged == KeyValueDB_write_wal(
                          s, KvRecord("delete", <<key>>, <<>>))
             stored == [logged EXCEPT !.cache = CachePop(logged.cache, key)]
         IN  Returned(KeyValueDB_persist_periodically(stored), TRUE)
    ELSE Returned(s, FALSE)

KeyValueDB_close(s) == KeyValueDB_persist(s)

\* KeyValueDB._write_wal whose open, write, flush or fsync raises: the file
\* is as it was or ends in a part of the line, and `except Exception` prints
\* the error and lets the method return as if it had written.
KeyValueDB_write_wal_failures(s) ==
    {s, [s EXCEPT !.wal_file = Append(s.wal_file, KvTorn)]}

\* put, batch_put and delete whose _write_wal fails: the caller is not told,
\* so the cache is updated and True returned as after a write that went
\* through.
KeyValueDB_put_wal_error(s, key, value) ==
    {Returned(KeyValueDB_persist_periodically(
                  [logged EXCEPT !.cache = CacheSet(logged.cache, key, value)]),
              TRUE) : logged \in KeyValueDB_write_wal_failures(s)}

KeyValueDB_batch_put_wal_error(s, keys, values) ==
    IF Len(keys) # Len(values) THEN {}
    ELSE {Returned(KeyValueDB_persist_periodically(
                       [logged EXCEPT !.cache =
                           CacheSetAll(logged.cache, keys, values)]),
                   TRUE) : logged \in KeyValueDB_write_wal_failures(s)}

KeyValueDB_delete_wal_error(s, key) ==
    IF key \in DOMAIN s.cache
    THEN {Returned(KeyValueDB_persist_periodically(
                       [logged EXCEPT !.cache = CachePop(logged.cache, key)]),
                   TRUE) : logged \in KeyValueDB_write_wal_failures(s)}
    ELSE {}

\* What a kill leaves of the directory: the two files.
KvDurable(db_file, wal_file) == [db_file |-> db_file, wal_file |-> wal_file]

\* The directory at the instants of _persist: before os.replace (the .tmp
\* file is not read by anyone), between os.replace and the truncation of
\* the WAL, and after it.
KvPersistKill(s) ==
    {KvDurable(s.db_file, s.wal_file),
     KvDurable(s.cache, s.wal_file),
     KvDurable(s.cache, <<>>)}

\* The directory at the instants of put(key, value): before the WAL line,
\* inside it, after it, and inside the _persist that follows when one does.
KvPutKill(s, key, value) ==
    LET stored == [KeyValueDB_write_wal(s, KvRecord("put", <<key>>, <<value>>))
                      EXCEPT !.cache = CacheSet(s.cache, key, value)]
    IN  {KvDurable(s.db_file, s.wal_file),
         KvDurable(s.db_file, Append(s.wal_file, KvTorn)),
         KvDurable(s.db_file, stored.wal_file)}
        \cup (IF Cardinality(DOMAIN stored.cache) % PersistEvery = 0
              THEN KvPersistKill(stored) ELSE {})

\* ------------------------------------------------------ state machine
VARIABLES
    memtable,       \* StorageEngine.memtable.data
    wal,            \* the lines of wal.log
    sstables,       \* StorageEngine.sstables
    files,          \* the sstable files of the data directory
    clock,          \* the last reading of time.time()
    memtable_size,  \* StorageEngine.memtable_size
    last,           \* per key, the last mutation acknowledged to a caller
    faults,         \* how many calls were cut short, by a kill of the
                    \* process or by a WAL.append that raised
    horizon         \* the last clock reading the run is followed to

\* The threads that call one StorageEngine.
VARIABLES
    lock,           \* StorageEngine.lock: the thread that owns it, or Free
    pc,             \* per thread, where it is in its call
    call,           \* per thread, the call it runs and its loop index
    seen,           \* what the reader's get_range saw
    wal_order,      \* the records in the order of their WAL.append
    mem_order       \* the records in the order of their MemTable update

VARIABLES
    cache,          \* KeyValueDB.cache
    db_file,        \* the contents of kvdb.json
    wal_file,       \* the lines of KeyValueDB's wal.log
    acked           \* ghost: per key, its last mutation through KeyValueDB

tvars == <<lock, pc, call, seen, wal_order, mem_order>>

kvvars == <<cache, db_file, wal_file, acked>>

vars == <<memtable, wal, sstables, files, clock, memtable_size, last, faults,
          horizon, tvars, kvvars>>

Cur == EngineState(memtable, wal, sstables, files, clock)

Install(s) ==
    /\ s.clock <= horizon
    /\ Len(s.sstables) <= MaxSSTables \/ Len(sstables) > MaxSSTables
    /\ horizon' = horizon
    /\ UNCHANGED <<tvars, kvvars>>
    /\ memtable' = s.memtable
    /\ wal' = s.wal
    /\ sstables' = s.sstables
    /\ files' = s.files
    /\ clock' = s.clock

\* A key's last acknowledged mutation: op is "none" (never written), "put",
\* "delete" or "unknown"; overwrites says that it is a put whose key's
\* mutation before it was a put as well.
Mutation(op, value, overwrites) ==
    [op |-> op, value |-> value, overwrites |-> overwrites]

AckPut(l, key, value) ==
    [l EXCEPT ![key] = Mutation("put", value, l[key].op = "put")]

AckDelete(l, key) == [l EXCEPT ![key] = Mutation("delete", None, FALSE)]

\* The acknowledged mutations of a batch, applied in order.
RECURSIVE AckBatch(_, _, _)
AckBatch(l, keys, values) ==
    IF keys = <<>> THEN l
    ELSE AckBatch(AckPut(l, keys[1], values[1]), Tail(keys), Tail(values))

SeqRange(q) == {q[i] : i \in 1..Len(q)}

\* A mutation in flight when the process was killed may or may not have
\* taken effect.
Unknown(l, ks) ==
    [k \in Keys |-> IF k \in ks THEN Mutation("unknown", None, FALSE) ELSE l[k]]

Batches(S) == UNION {[1..n -> S] : n \in 0..MaxBatch}

\* ------------------------------------------------------------ threads
\* StorageEngine.lock is free.
Free == 0

Writers == 1..MaxWriters

Reader == MaxWriters + 1

Threads == Writers \cup {Reader}

\* A lock that never makes a thread wait.
Lock_never_blocks(l, t) == FALSE

\* A non-reentrant lock: it makes its owner wait too.
Lock_blocks_owner(l, t) == l # Free

\* `with self.lock` on the RLock: thread t waits while another thread owns
\* it (the owner itself enters again).
Lock_blocks(l, t) == l # Free /\ l # t

NoCall == [op |-> "none", keys |-> <<>>, values |-> <<>>, i |-> 0]

\* No KeyValueDB has yet been opened on its directory.
KvIdle ==
    /\ cache = EmptyCache
    /\ db_file = EmptyCache
    /\ wal_file = <<>>
    /\ acked = [k \in Keys |-> Mutation("none", None, FALSE)]

ThreadsIdle ==
    /\ lock = Free
    /\ pc = [t \in Threads |-> "idle"]
    /\ call = [t \in Threads |-> NoCall]
    /\ seen = "none"
    /\ wal_order = <<>>
    /\ mem_order = <<>>

\* A StorageEngine constructed on an empty data directory.
Fresh ==
    /\ memtable = <<>>
    /\ wal = <<>>
    /\ sstables = <<>>
    /\ files = [n \in {} |-> <<>>]
    /\ clock = 0
    /\ memtable_size \in 1..MaxMemtableSize
    /\ last = [k \in Keys |-> Mutation("none", None, FALSE)]
    /\ faults = 0
    /\ ThreadsIdle
    /\ KvIdle

\* The puts of an earlier process that ran with memtable_size = 1, so that
\* each put was flushed to an SSTable of its own: as many as the list may
\* hold without a compaction.
LoadedHistory ==
    [i \in 1..CompactionThreshold |->
        [key |-> ((i - 1) % MaxKey) + 1,
         value |-> (((i - 1) \div MaxKey) % MaxVal) + 1]]

RECURSIVE RunPuts(_, _)
RunPuts(s, history) ==
    IF history = <<>> THEN s
    ELSE RunPuts(
            Engine_put(s, 1, history[1].key, history[1].value, "ok").state,
            Tail(history))

LoadedDirectory ==
    RunPuts(EngineState(<<>>, <<>>, <<>>, [n \in {} |-> <<>>],
                        0 - CompactionThreshold),
            LoadedHistory)

\* A StorageEngine constructed on the directory that process left.
Loaded ==
    /\ memtable = Engine_init(LoadedDirectory.wal, LoadedDirectory.files, 0).memtable
    /\ wal = LoadedDirectory.wal
    /\ sstables = Engine_load_sstables(LoadedDirectory.files)
    /\ files = LoadedDirectory.files
    /\ clock = LoadedDirectory.clock
    /\ memtable_size \in 1..MaxMemtableSize
    /\ last = AckBatch([k \in Keys |-> Mutation("none", None, FALSE)],
                       [i \in DOMAIN LoadedHistory |-> LoadedHistory[i].key],
                       [i \in DOMAIN LoadedHistory |-> LoadedHistory[i].value])
    /\ faults = 0
    /\ ThreadsIdle
    /\ KvIdle

Init == (Fresh \/ Loaded) /\ horizon = MaxClock

\* The directory that process left one put earlier: one SSTable fewer, so
\* that the second flush from here is the one that compacts.
BrinkHistory == SubSeq(LoadedHistory, 1, CompactionThreshold - 1)

BrinkDirectory ==
    RunPuts(EngineState(<<>>, <<>>, <<>>, [n \in {} |-> <<>>],
                        1 - CompactionThreshold),
            BrinkHistory)

Brink ==
    /\ memtable = <<>>
    /\ wal = BrinkDirectory.wal
    /\ sstables = Engine_load_sstables(BrinkDirectory.files)
    /\ files = BrinkDirectory.files
    /\ clock = BrinkDirectory.clock
    /\ memtable_size \in 1..MaxMemtableSize
    /\ last = AckBatch([k \in Keys |-> Mutation("none", None, FALSE)],
                       [i \in DOMAIN BrinkHistory |-> BrinkHistory[i].key],
                       [i \in DOMAIN BrinkHistory |-> BrinkHistory[i].value])
    /\ faults = 0
    /\ ThreadsIdle
    /\ KvIdle

InitBrink == Brink /\ horizon = MaxBrinkClock

InitFault == Fresh /\ horizon = MaxFaultClock

\* The loaded directory is followed through the flush that takes its list
\* over the threshold and the compaction that flush runs.
InitCrash ==
    \/ Fresh /\ horizon = MaxFaultClock
    \/ Loaded /\ horizon = MaxShortClock

Put(key, value) ==
    LET out == Engine_put(Cur, memtable_size, key, value, "ok")
    IN  /\ Len(WAL_append(wal, "put", key, value)) <= MaxWal
        /\ Install(out.state)
        /\ last' = AckPut(last, key, value)
        /\ UNCHANGED <<memtable_size, faults>>

\* put(key, value) whose WAL.append raises.
PutWalError(key, value, fault) ==
    LET out == Engine_put(Cur, memtable_size, key, value, fault)
    IN  /\ Len(wal) < MaxWal
        /\ faults < MaxFaults
        /\ Install(out.state)
        /\ faults' = faults + 1
        /\ UNCHANGED <<memtable_size, last>>

Delete(key) ==
    LET out == Engine_delete(Cur, memtable_size, key, "ok")
    IN  /\ Len(WAL_append(wal, "delete", key, None)) <= MaxWal
        /\ Install(out.state)
        /\ last' = AckDelete(last, key)
        /\ UNCHANGED <<memtable_size, faults>>

\* delete(key) whose WAL.append raises.
DeleteWalError(key, fault) ==
    LET out == Engine_delete(Cur, memtable_size, key, fault)
    IN  /\ Len(wal) < MaxWal
        /\ faults < MaxFaults
        /\ Install(out.state)
        /\ faults' = faults + 1
        /\ UNCHANGED <<memtable_size, last>>

BatchPut(keys, values) ==
    LET out == Engine_batch_put(Cur, memtable_size, keys, values)
    IN  /\ Len(wal) + Len(keys) <= MaxWal
        /\ Install(out.state)
        /\ last' = IF out.status = "ok" THEN AckBatch(last, keys, values)
                   ELSE last
        /\ UNCHANGED <<memtable_size, faults>>

CompactSSTables ==
    LET s == Engine_compact_sstables(Cur)
    IN  /\ Install(s)
        /\ UNCHANGED <<memtable_size, last, faults>>

Close ==
    LET s == Engine_close(Cur)
    IN  /\ Install(s)
        /\ UNCHANGED <<memtable_size, last, faults>>

\* A new StorageEngine is constructed on what the killed process left.
Restart(d) ==
    /\ Install(Engine_init(d.wal, d.files, d.clock))
    /\ UNCHANGED memtable_size

\* The process is killed while the engine is idle.
Crash ==
    /\ Restart(Durable(wal, files, clock))
    /\ UNCHANGED <<last, faults>>

KillInPut(key, value) ==
    /\ Len(wal) < MaxWal
    /\ faults < MaxFaults
    /\ \E d \in PutKill(Cur, memtable_size, key, value) : Restart(d)
    /\ last' = Unknown(last, {key})
    /\ faults' = faults + 1

KillInDelete(key) ==
    /\ Len(wal) < MaxWal
    /\ faults < MaxFaults
    /\ \E d \in DeleteKill(Cur, memtable_size, key) : Restart(d)
    /\ last' = Unknown(last, {key})
    /\ faults' = faults + 1

KillInBatchPut(keys, values) ==
    /\ Len(wal) + Len(keys) <= MaxWal
    /\ faults < MaxFaults
    /\ \E d \in BatchKill(Cur, memtable_size, keys, values) : Restart(d)
    /\ last' = Unknown(last, SeqRange(keys))
    /\ faults' = faults + 1

Get(key) ==
    /\ Install(Engine_get_call(Cur, key).state)
    /\ UNCHANGED <<memtable_size, last, faults>>

GetRange(start_key, end_key) ==
    /\ Install(Engine_get_range_call(Cur, start_key, end_key).state)
    /\ UNCHANGED <<memtable_size, last, faults>>

\* ------------------------------------------- threads on one engine
\* The value a writer thread writes: each thread has its own.
ThreadValue(t) == ((t - 1) % MaxVal) + 1

\* The calls of a writer thread; put and delete are loops of one entry.
WriterCalls(t) ==
    {[op |-> "put", keys |-> <<k>>, values |-> <<ThreadValue(t)>>, i |-> 1] :
        k \in Keys}
    \cup
    {[op |-> "delete", keys |-> <<k>>, values |-> <<None>>, i |-> 1] :
        k \in Keys}
    \cup
    {[op |-> "batch_put", keys |-> ks,
      values |-> [j \in DOMAIN ks |-> ThreadValue(t)], i |-> 1] :
        ks \in Batches(Keys)}

\* The WAL operation of a call: batch_put appends "put" records.
WalOperation(c) == IF c.op = "delete" THEN "delete" ELSE "put"

Record(t, c) ==
    [thread |-> t, operation |-> WalOperation(c), key |-> c.keys[c.i],
     value |-> c.values[c.i]]

evars == <<memtable, wal, sstables, files, clock>>

\* A thread calls put, delete or batch_put (lists of equal length).
WriterCall(t, c) ==
    /\ pc[t] = "idle"
    /\ pc' = [pc EXCEPT ![t] = "wait"]
    /\ call' = [call EXCEPT ![t] = c]
    /\ UNCHANGED kvvars
    /\ UNCHANGED <<evars, memtable_size, last, faults, horizon, lock, seen,
                   wal_order, mem_order>>

\* `with self.lock:` of put, delete and batch_put.
WriterAcquire(t) ==
    /\ pc[t] = "wait"
    /\ ~Lock_blocks(lock, t)
    /\ lock' = t
    /\ pc' = [pc EXCEPT ![t] = "loop"]
    /\ UNCHANGED kvvars
    /\ UNCHANGED <<evars, memtable_size, last, faults, horizon, call, seen,
                   wal_order, mem_order>>

\* self.wal.append(...) of the entry the call is at.
WriterAppend(t) ==
    LET c == call[t]
    IN  /\ pc[t] = "loop"
        /\ c.i <= Len(c.keys)
        /\ wal' = WAL_append(wal, WalOperation(c), c.keys[c.i], c.values[c.i])
        /\ wal_order' = Append(wal_order, Record(t, c))
        /\ pc' = [pc EXCEPT ![t] = "logged"]
        /\ UNCHANGED <<memtable, sstables, files, clock, memtable_size, last,
                       faults, horizon, kvvars, lock, call, seen, mem_order>>

\* self.memtable.put(...) or self.memtable.delete(...) of that entry.
WriterStore(t) ==
    LET c == call[t]
    IN  /\ pc[t] = "logged"
        /\ memtable' = IF c.op = "delete"
                       THEN MemTable_delete(memtable, c.keys[c.i])
                       ELSE MemTable_put(memtable, c.keys[c.i], c.values[c.i])
        /\ mem_order' = Append(mem_order, Record(t, c))
        /\ call' = [call EXCEPT ![t].i = c.i + 1]
        /\ pc' = [pc EXCEPT ![t] = "loop"]
        /\ UNCHANGED <<wal, sstables, files, clock, memtable_size, last,
                       faults, horizon, kvvars, lock, seen, wal_order>>

\* After the loop: the flush of a full memtable (close: of any memtable),
\* for which _flush_memtable enters `with self.lock` again, the release of
\* the lock and the return to the caller.
WriterReturn(t) ==
    LET c == call[t]
        flushes == c.op = "close" \/ MemTable_is_full(memtable, memtable_size)
        s == IF c.op = "close" THEN Engine_close(Cur)
             ELSE FlushIfFull(Cur, memtable_size)
    IN  /\ pc[t] = "loop"
        /\ c.i > Len(c.keys)
        /\ flushes => ~Lock_blocks(lock, t)
        /\ s.clock <= horizon
        /\ memtable' = s.memtable
        /\ wal' = s.wal
        /\ sstables' = s.sstables
        /\ files' = s.files
        /\ clock' = s.clock
        /\ lock' = Free
        /\ pc' = [pc EXCEPT ![t] = "done"]
        /\ last' = IF c.op = "close" THEN last
                   ELSE IF c.op = "delete" THEN AckDelete(last, c.keys[1])
                   ELSE AckBatch(last, c.keys, c.values)
        /\ UNCHANGED kvvars
        /\ UNCHANGED <<memtable_size, faults, horizon, call, seen, wal_order,
                       mem_order>>

\* A writer is inside a batch_put of which some entries are stored and
\* others are not.
Partial(t) ==
    /\ call[t].op = "batch_put"
    /\ pc[t] \in {"loop", "logged"}
    /\ 1 < call[t].i
    /\ call[t].i <= Len(call[t].keys)

\* The engine's reads show some keys of the batch with the batch's value and
\* others without.
TornView(t) ==
    /\ Partial(t)
    /\ \E j \in 1..Len(call[t].keys) :
          Engine_get(Cur, call[t].keys[j]) = call[t].values[j]
    /\ \E j \in 1..Len(call[t].keys) :
          Engine_get(Cur, call[t].keys[j]) # call[t].values[j]

\* The reader thread calls get_range (or get).
ReaderCall ==
    /\ pc[Reader] = "idle"
    /\ pc' = [pc EXCEPT ![Reader] = "wait"]
    /\ UNCHANGED kvvars
    /\ UNCHANGED <<evars, memtable_size, last, faults, horizon, lock, call,
                   seen, wal_order, mem_order>>

\* `with self.lock:` of get and get_range.
ReaderAcquire ==
    /\ pc[Reader] = "wait"
    /\ ~Lock_blocks(lock, Reader)
    /\ lock' = Reader
    /\ pc' = [pc EXCEPT ![Reader] = "reading"]
    /\ UNCHANGED kvvars
    /\ UNCHANGED <<evars, memtable_size, last, faults, horizon, call, seen,
                   wal_order, mem_order>>

\* The read of the memtable and the SSTables, and the return.
ReaderReturn ==
    /\ pc[Reader] = "reading"
    /\ seen' = IF \E t \in Writers : TornView(t) THEN "torn" ELSE "whole"
    /\ lock' = Free
    /\ pc' = [pc EXCEPT ![Reader] = "idle"]
    /\ UNCHANGED <<evars, memtable_size, last, faults, horizon, kvvars, call,
                   wal_order, mem_order>>

\* The engine in one process: every call runs to completion.
Next ==
    \/ \E k \in Keys, v \in AnyValue : Put(k, v)
    \/ \E k \in Keys : Delete(k)
    \/ \E ks \in Batches(Keys), vs \in Batches(AnyValue) : BatchPut(ks, vs)
    \/ CompactSSTables
    \/ Close

Spec == Init /\ [][Next]_vars

\* The same engine on a directory one SSTable below the threshold.
SpecBrink == InitBrink /\ [][Next]_vars

\* The engine in one process, with WAL appends that raise.
NextFault ==
    \/ \E k \in Keys, v \in AnyValue : Put(k, v)
    \/ \E k \in Keys, v \in AnyValue, f \in WalOutcomes : PutWalError(k, v, f)
    \/ \E k \in Keys : Delete(k)
    \/ \E k \in Keys, f \in WalOutcomes : DeleteWalError(k, f)
    \/ Close

SpecFault == InitFault /\ [][NextFault]_vars

\* The engine with kills of the process and restarts on the same directory.
NextCrash ==
    \/ \E k \in Keys, v \in AnyValue : Put(k, v)
    \/ \E k \in Keys : Delete(k)
    \/ \E ks \in Batches(Keys), vs \in Batches(AnyValue) : BatchPut(ks, vs)
    \/ Close
    \/ Crash
    \/ \E k \in Keys, v \in AnyValue : KillInPut(k, v)
    \/ \E k \in Keys : KillInDelete(k)
    \/ \E ks \in Batches(Keys), vs \in Batches(AnyValue) :
          KillInBatchPut(ks, vs)

SpecCrash == InitCrash /\ [][NextCrash]_vars

\* The same engine with its reads.
NextReads ==
    \/ \E k \in Keys, v \in AnyValue : Put(k, v)
    \/ \E k \in Keys : Delete(k)
    \/ \E ks \in Batches(Keys), vs \in Batches(AnyValue) : BatchPut(ks, vs)
    \/ Close
    \/ Crash
    \/ \E k \in Keys, v \in AnyValue : KillInPut(k, v)
    \/ \E k \in Keys : KillInDelete(k)
    \/ \E ks \in Batches(Keys), vs \in Batches(AnyValue) :
          KillInBatchPut(ks, vs)
    \/ \E k \in Keys : Get(k)
    \/ \E lo \in Keys, hi \in Keys : GetRange(lo, hi)

SpecReads == InitCrash /\ [][NextReads]_vars

\* Threads that share one engine: each writer makes one call, the reader
\* reads again and again.
InitThreads == Fresh /\ horizon = MaxShortClock

NextThreads ==
    \/ \E t \in Writers : \E c \in WriterCalls(t) : WriterCall(t, c)
    \/ \E t \in Writers : WriterAcquire(t)
    \/ \E t \in Writers : WriterAppend(t)
    \/ \E t \in Writers : WriterStore(t)
    \/ \E t \in Writers : WriterReturn(t)
    \/ ReaderCall
    \/ ReaderAcquire
    \/ ReaderReturn

SpecThreads == InitThreads /\ [][NextThreads]_vars

\* close() called by a thread: no entry to log, and a flush after it.
CloseCall == [op |-> "close", keys |-> <<>>, values |-> <<>>, i |-> 1]

\* Threads that call put, delete, batch_put and close while the reader
\* reads.
NextThreadsFair ==
    \/ \E t \in Writers : \E c \in WriterCalls(t) : WriterCall(t, c)
    \/ \E t \in Writers : WriterCall(t, CloseCall)
    \/ \E t \in Writers : WriterAcquire(t)
    \/ \E t \in Writers : WriterAppend(t)
    \/ \E t \in Writers : WriterStore(t)
    \/ \E t \in Writers : WriterReturn(t)
    \/ ReaderCall
    \/ ReaderAcquire
    \/ ReaderReturn

\* Fair scheduling: a thread that can take a step of its call takes it
\* (weak fairness for the steps inside the lock, which nothing disables),
\* and a thread that finds the lock free again and again gets it (strong
\* fairness for the acquisition, which another thread's acquisition
\* disables).
WriterStep(t) == WriterAppend(t) \/ WriterStore(t) \/ WriterReturn(t)

Fairness ==
    /\ \A t \in Writers : SF_vars(WriterAcquire(t)) /\ WF_vars(WriterStep(t))
    /\ SF_vars(ReaderAcquire)
    /\ WF_vars(ReaderReturn)

\* The engine is constructed with the largest memtable_size, so that a call
\* finds the MemTable full only after another call filled it.
InitThreadsFair == InitThreads /\ memtable_size = MaxMemtableSize

SpecThreadsFair == InitThreadsFair /\ [][NextThreadsFair]_vars /\ Fairness

\* ------------------------------------------------- a clock that ties
\* The engine when the next reading of time.time() returns the microsecond
\* of the reading before it (ReadClock adds one to the clock it is given).
Stalled(s) == [s EXCEPT !.clock = s.clock - 1]

\* The clock does not go back: a call that read no time leaves it.
Resumed(s) == [s EXCEPT !.clock = IF s.clock < clock THEN clock ELSE s.clock]

\* put(key, value) whose first reading of the time, if it makes one, ties
\* with the last reading.
PutTied(key, value) ==
    LET out == Engine_put(Stalled(Cur), memtable_size, key, value, "ok")
    IN  /\ clock > 0
        /\ Len(WAL_append(wal, "put", key, value)) <= MaxWal
        /\ Install(Resumed(out.state))
        /\ last' = AckPut(last, key, value)
        /\ UNCHANGED <<memtable_size, faults>>

DeleteTied(key) ==
    LET out == Engine_delete(Stalled(Cur), memtable_size, key, "ok")
    IN  /\ clock > 0
        /\ Len(WAL_append(wal, "delete", key, None)) <= MaxWal
        /\ Install(Resumed(out.state))
        /\ last' = AckDelete(last, key)
        /\ UNCHANGED <<memtable_size, faults>>

CloseTied ==
    /\ clock > 0
    /\ Install(Resumed(Engine_close(Stalled(Cur))))
    /\ UNCHANGED <<memtable_size, last, faults>>

CompactSSTablesTied ==
    /\ clock > 0
    /\ Install(Resumed(Engine_compact_sstables(Stalled(Cur))))
    /\ UNCHANGED <<memtable_size, last, faults>>

InitTies == Fresh /\ horizon = MaxFaultClock

NextTies ==
    \/ \E k \in Keys, v \in AnyValue : Put(k, v)
    \/ \E k \in Keys : Delete(k)
    \/ Close
    \/ CompactSSTables
    \/ \E k \in Keys, v \in AnyValue : PutTied(k, v)
    \/ \E k \in Keys : DeleteTied(k)
    \/ CloseTied
    \/ CompactSSTablesTied

SpecTies == InitTies /\ [][NextTies]_vars

\* ------------------------------------------- SSTable.write that raises
\* put(key, value) that fills the MemTable and whose flush raises in
\* SSTable.write: the exception reaches the caller after the record was
\* logged and stored.
PutWriteError(key, value) ==
    /\ Len(WAL_append(wal, "put", key, value)) <= MaxWal
    /\ faults < MaxFaults
    /\ \E out \in Engine_put_write_error(Cur, memtable_size, key, value) :
          Install(out.state)
    /\ last' = Unknown(last, {key})
    /\ faults' = faults + 1
    /\ UNCHANGED memtable_size

DeleteWriteError(key) ==
    /\ Len(WAL_append(wal, "delete", key, None)) <= MaxWal
    /\ faults < MaxFaults
    /\ \E out \in Engine_delete_write_error(Cur, memtable_size, key) :
          Install(out.state)
    /\ last' = Unknown(last, {key})
    /\ faults' = faults + 1
    /\ UNCHANGED memtable_size

\* put(key, value) whose flush goes through and whose compaction raises.
PutCompactError(key, value) ==
    /\ Len(WAL_append(wal, "put", key, value)) <= MaxWal
    /\ faults < MaxFaults
    /\ \E out \in Engine_put_compact_error(Cur, memtable_size, key, value) :
          Install(out.state)
    /\ last' = Unknown(last, {key})
    /\ faults' = faults + 1
    /\ UNCHANGED memtable_size

CloseWriteError ==
    /\ faults < MaxFaults
    /\ \E out \in Engine_close_write_error(Cur) : Install(out.state)
    /\ faults' = faults + 1
    /\ UNCHANGED <<memtable_size, last>>

CompactWriteError ==
    /\ faults < MaxFaults
    /\ \E out \in Engine_compact_write_error(Cur) : Install(out.state)
    /\ faults' = faults + 1
    /\ UNCHANGED <<memtable_size, last>>

InitWriteFault == Loaded /\ horizon = MaxShortClock

NextWriteFault ==
    \/ \E k \in Keys, v \in AnyValue : Put(k, v)
    \/ \E k \in Keys : Delete(k)
    \/ Close
    \/ CompactSSTables
    \/ \E k \in Keys, v \in AnyValue : PutWriteError(k, v)
    \/ \E k \in Keys, v \in AnyValue : PutCompactError(k, v)
    \/ \E k \in Keys : DeleteWriteError(k)
    \/ CloseWriteError
    \/ CompactWriteError

\* The engine in one process, with SSTable writes that raise.
SpecWriteFault == InitWriteFault /\ [][NextWriteFault]_vars

\* ------------------------------------------------------ WAL replay
\* The lines wal.log can hold, and its contents of up to MaxReplay lines.
WalLines ==
    {WalLine("put", k, v, TRUE) : k \in Keys, v \in AnyValue}
    \cup {WalLine("delete", k, None, TRUE) : k \in Keys}
    \cup {GarbageLine(TRUE)}

WalContents == UNION {[1..n -> WalLines] : n \in 0..MaxReplay}

\* An engine object before _recover_from_wal has run, on any wal.log.
InitReplay ==
    /\ memtable = <<>>
    /\ wal \in WalContents
    /\ sstables = <<>>
    /\ files = [n \in {} |-> <<>>]
    /\ clock = 0
    /\ memtable_size = MaxMemtableSize
    /\ last = [k \in Keys |-> Mutation("unknown", None, FALSE)]
    /\ faults = 0
    /\ horizon = 0
    /\ ThreadsIdle
    /\ KvIdle

\* _recover_from_wal runs on the engine (the first time from __init__).
RecoverFromWal ==
    /\ memtable' = Engine_recover_from_wal(memtable, wal)
    /\ UNCHANGED <<wal, sstables, files, clock, memtable_size, last, faults,
                   horizon, kvvars, tvars>>

NextReplay == RecoverFromWal

SpecReplay == InitReplay /\ [][NextReplay]_vars

\* ------------------------------------------- server and client library
\* dict.get(name) and dict.get(name, default).
FieldOr(d, name, default) == IF name \in DOMAIN d THEN d[name] ELSE default

Field(d, name) == FieldOr(d, name, None)

Answer(s, response) == [state |-> s, response |-> response]

\* KVDBServer._process_request on the request the line decodes to. Keys and
\* values are strings, which json.dumps and json.loads carry unchanged.
Server_process_request(s, request) ==
    LET command == request.command
    IN  IF command = "put"
        THEN IF Field(request, "key") = None \/ Field(request, "value") = None
             THEN Answer(s, [status |-> "error",
                             message |-> "Missing key or value"])
             ELSE LET out == KeyValueDB_put(s, request.key, request.value)
                  IN  IF out.result
                      THEN Answer(out.state,
                                  [status |-> "ok", result |-> TRUE])
                      ELSE Answer(out.state,
                                  [status |-> "error", result |-> FALSE,
                                   message |-> "Failed to put key-value pair"])
        ELSE IF command = "read"
        THEN IF Field(request, "key") = None
             THEN Answer(s, [status |-> "error", message |-> "Missing key"])
             ELSE Answer(s, [status |-> "ok",
                             result |-> KeyValueDB_read(s, request.key)])
        ELSE IF command = "read_key_range"
        THEN IF \/ Field(request, "start_key") = None
                \/ Field(request, "end_key") = None
             THEN Answer(s, [status |-> "error",
                             message |-> "Missing start_key or end_key"])
             ELSE Answer(s, [status |-> "ok",
                             result |-> KeyValueDB_read_key_range(
                                 s, request.start_key, request.end_key)])
        ELSE IF command = "batch_put"
        THEN IF "keys" \notin DOMAIN request \/ "values" \notin DOMAIN request
             THEN Answer(s, [status |-> "error",
                             message |-> "Missing keys or values"])
             ELSE LET out == KeyValueDB_batch_put(s, request.keys,
                                                  request.values)
                  IN  IF out.result
                      THEN Answer(out.state,
                                  [status |-> "ok", result |-> TRUE])
                      ELSE Answer(out.state,
                                  [status |-> "error", result |-> FALSE,
                                   message |-> "Failed to batch put"])
        ELSE IF command = "delete"
        THEN IF Field(request, "key") = None
             THEN Answer(s, [status |-> "error", message |-> "Missing key"])
             ELSE LET out == KeyValueDB_delete(s, request.key)
                  IN  IF out.result
                      THEN Answer(out.state,
                                  [status |-> "ok", result |-> TRUE])
                      ELSE Answer(out.state,
                                  [status |-> "error", result |-> FALSE,
                                   message |-> "Failed to delete key"])
        ELSE Answer(s, [status |-> "error", message |-> "Unknown command"])

\* The requests KVClient builds.
Client_put_request(key, value) ==
    [command |-> "put", key |-> key, value |-> value]

Client_get_request(key) == [command |-> "get", key |-> key]

Client_get_range_request(start_key, end_key) ==
    [command |-> "get_range", start_key |-> start_key, end_key |-> end_key]

Client_batch_put_request(keys, values) ==
    [command |-> "batch_put", keys |-> keys, values |-> values]

Client_delete_request(key) == [command |-> "delete", key |-> key]

Client_ping_request == [command |-> "ping"]

\* KVClient's methods over a connection to a server whose database is s:
\* the database after the call and what the method returns.
Client_put(s, key, value) ==
    LET a == Server_process_request(s, Client_put_request(key, value))
    IN  Returned(a.state, a.response.status = "ok")

Client_get(s, key) ==
    LET a == Server_process_request(s, Client_get_request(key))
    IN  Returned(a.state, IF a.response.status = "ok"
                          THEN Field(a.response, "value") ELSE None)

Client_get_range(s, start_key, end_key) ==
    LET a == Server_process_request(
                 s, Client_get_range_request(start_key, end_key))
    IN  Returned(a.state, IF a.response.status = "ok"
                          THEN FieldOr(a.response, "data", <<>>) ELSE <<>>)

\* batch_put raises ValueError for lists of different lengths and sends
\* nothing.
Client_batch_put(s, keys, values) ==
    LET a == Server_process_request(s, Client_batch_put_request(keys, values))
    IN  IF Len(keys) # Len(values) THEN Returned(s, "ValueError")
        ELSE Returned(a.state, a.response.status = "ok")

Client_delete(s, key) ==
    LET a == Server_process_request(s, Client_delete_request(key))
    IN  Returned(a.state, a.response.status = "ok")

Client_ping(s) ==
    LET a == Server_process_request(s, Client_ping_request)
    IN  Returned(a.state, a.response.status = "ok")

\* ------------------------------------------------- KeyValueDB in use
KvCur == KvState(cache, db_file, wal_file)

KvInstall(s) ==
    /\ cache' = s.cache
    /\ db_file' = s.db_file
    /\ wal_file' = s.wal_file
    /\ UNCHANGED <<evars, memtable_size, last, faults, horizon, tvars>>

KvPut(key, value) ==
    /\ Len(wal_file) < MaxKvWal
    /\ KvInstall(KeyValueDB_put(KvCur, key, value).state)
    /\ acked' = AckPut(acked, key, value)

KvBatchPut(keys, values) ==
    LET out == KeyValueDB_batch_put(KvCur, keys, values)
    IN  /\ Len(wal_file) < MaxKvWal
        /\ KvInstall(out.state)
        /\ acked' = IF out.result THEN AckBatch(acked, keys, values)
                    ELSE acked

\* delete(key), of a key the cache holds or not.
KvDelete(key) ==
    /\ Len(wal_file) < MaxKvWal
    /\ KvInstall(KeyValueDB_delete(KvCur, key).state)
    /\ acked' = AckDelete(acked, key)

KvClose ==
    /\ KvInstall(KeyValueDB_close(KvCur))
    /\ UNCHANGED acked

\* A new process opens the directory a kill left.
KvReopen(d) == KvInstall(KeyValueDB_load_data(d.db_file, d.wal_file))

\* The process is killed between two calls, and a new one opens the
\* directory.
KvCrash ==
    /\ KvReopen(KvDurable(db_file, wal_file))
    /\ UNCHANGED acked

KvKillInPut(key, value) ==
    /\ Len(wal_file) < MaxKvWal
    /\ \E d \in KvPutKill(KvCur, key, value) : KvReopen(d)
    /\ acked' = Unknown(acked, {key})

KvKillInClose ==
    /\ \E d \in KvPersistKill(KvCur) : KvReopen(d)
    /\ UNCHANGED acked

InitKv == Fresh /\ memtable_size = MaxMemtableSize /\ horizon = 0

NextKv ==
    \/ \E k \in Keys, v \in Values : KvPut(k, v)
    \/ \E ks \in Batches(Keys), vs \in Batches(Values) : KvBatchPut(ks, vs)
    \/ \E k \in Keys : KvDelete(k)
    \/ KvClose
    \/ KvCrash
    \/ \E k \in Keys, v \in Values : KvKillInPut(k, v)
    \/ KvKillInClose

SpecKv == InitKv /\ [][NextKv]_vars

\* ------------------------------------------------------------- claims
RangeKeys(r) == {r[i].key : i \in 1..Len(r)}

InMemtable(k) == k \in DictKeys(memtable)

Compacted(sst) == sst.file_path[2]

\* Every SSTable of the engine's list names a file of the directory.
SSTablesHaveFiles ==
    \A i \in 1..Len(sstables) : sstables[i].file_path \in DOMAIN files

\* C1: a key whose last acknowledged mutation is a put of a non-null value
\* reads back that value with get, whatever puts, deletes, batches, flushes
\* and compactions came before it and whatever happened to other keys after.
C1_RoundTrip ==
    \A k \in Keys :
        (last[k].op = "put" /\ last[k].value # None)
            => Engine_get(Cur, k) = last[k].value

\* A put value that was flushed and compacted, and that overwrote an
\* earlier put: it is read from the compacted SSTable.
C1_Witness ==
    \E k \in Keys :
        /\ last[k].op = "put" /\ last[k].value # None /\ last[k].overwrites
        /\ ~InMemtable(k)
        /\ Len(sstables) = 1 /\ Compacted(sstables[1])
        /\ Engine_get(Cur, k) = last[k].value

\* C2: a key whose last acknowledged mutation is a delete reads as absent.
C2_DeleteThenAbsent ==
    \A k \in Keys : last[k].op = "delete" => Engine_get(Cur, k) = None

\* C3: a key whose last acknowledged mutation is a put that followed
\* another put of the key (no delete in between) reads back the value of
\* the last put.
C3_NewestPutWins ==
    \A k \in Keys :
        (last[k].op = "put" /\ last[k].overwrites)
            => Engine_get(Cur, k) = last[k].value

\* The engine a new process constructs if this one is killed now.
Reopened == Engine_init(wal, files, clock)

\* C4: a key whose last acknowledged mutation is a put of a non-null value
\* reads back that value in the engine reopened after a kill, whatever
\* kills and restarts came before.
C4_PersistsAcrossKill ==
    \A k \in Keys :
        (last[k].op = "put" /\ last[k].value # None)
            => Engine_get(Reopened, k) = last[k].value

Distinct(q) == \A i \in 1..Len(q), j \in 1..Len(q) : q[i] = q[j] => i = j

\* C5: for a batch_put of distinct keys and non-null values, at every
\* instant of a kill inside it the reopened engine reads either every key of
\* the batch with its value of the batch, or every key of the batch as the
\* engine reopened without the batch reads it.
C5_BatchAllOrNothing ==
    \A ks \in Batches(Keys), vs \in Batches(Values) :
        (Len(ks) = Len(vs) /\ Distinct(ks))
            => \A d \in BatchKill(Cur, memtable_size, ks, vs) :
                  LET r == Engine_init(d.wal, d.files, d.clock)
                  IN  \/ \A i \in 1..Len(ks) : Engine_get(r, ks[i]) = vs[i]
                      \/ \A i \in 1..Len(ks) :
                            Engine_get(r, ks[i]) = Engine_get(Reopened, ks[i])

\* C6: get_range(lo, hi) is strictly ascending by key, stays inside
\* [lo, hi], and holds every key of [lo, hi] whose last mutation is a put,
\* with the value of that put.
C6_RangeBoundsOrder ==
    \A lo \in Keys, hi \in Keys :
        LET r == Engine_get_range(Cur, lo, hi)
        IN  /\ IsSortedStrict(r)
            /\ \A i \in 1..Len(r) : lo <= r[i].key /\ r[i].key <= hi
            /\ \A k \in Keys :
                  (lo <= k /\ k <= hi /\ last[k].op = "put")
                      => \E i \in 1..Len(r) :
                            r[i] = [key |-> k, value |-> last[k].value]

\* C7: a key whose last mutation is a delete is in no get_range result.
C7_TombstonesExcluded ==
    \A k \in Keys :
        last[k].op = "delete"
            => \A lo \in Keys, hi \in Keys :
                  k \notin RangeKeys(Engine_get_range(Cur, lo, hi))

\* C8: get and get_range answer the same before and after
\* _compact_sstables_internal.
C8_CompactionPreserves ==
    LET after == Engine_compact_sstables_internal(Cur)
    IN  /\ \A k \in Keys : Engine_get(after, k) = Engine_get(Cur, k)
        /\ \A lo \in Keys, hi \in Keys :
              Engine_get_range(after, lo, hi) = Engine_get_range(Cur, lo, hi)

\* What a caller can observe of an engine: every get and every get_range.
Reads(s) ==
    [get |-> [k \in Keys |-> Engine_get(s, k)],
     get_range |-> [b \in Keys \X Keys |-> Engine_get_range(s, b[1], b[2])]]

\* C9: a put or a delete whose WAL.append raises, whatever the append left
\* in the file, ends in that exception and leaves the memtable, the SSTable
\* list and the result of every get and get_range as they were.
C9_WalFailureNoChange ==
    LET before == Reads(Cur)
        Unchanged(out) ==
            /\ out.status = "WalError"
            /\ out.state.memtable = memtable
            /\ out.state.sstables = sstables
            /\ Reads(out.state) = before
    IN  \A k \in Keys, f \in WalOutcomes :
            /\ \A v \in AnyValue :
                  Unchanged(Engine_put(Cur, memtable_size, k, v, f))
            /\ Unchanged(Engine_delete(Cur, memtable_size, k, f))

\* An engine with unflushed entries and a flushed SSTable in which an append
\* that raised has left a partial line at the end of the WAL.
C9_Witness ==
    /\ WalTailOpen(wal) /\ Last(wal).operation = "garbage"
    /\ Len(memtable) > 0 /\ Len(sstables) > 0
    /\ \E k \in Keys :
          Engine_put(Cur, memtable_size, k, 1, "torn").status = "WalError"

\* C10: batch_put with lists of different lengths ends in ValueError and
\* leaves the WAL, the memtable, the SSTables and the files as they were.
C10_MismatchRejected ==
    \A ks \in Batches(Keys), vs \in Batches(AnyValue) :
        Len(ks) # Len(vs)
            => LET out == Engine_batch_put(Cur, memtable_size, ks, vs)
               IN  /\ out.status = "ValueError"
                   /\ out.state = Cur

\* An engine holding unflushed entries on which a batch_put with more keys
\* than values is rejected.
C10_Witness ==
    /\ Len(memtable) > 0 /\ Len(wal) > 0 /\ Len(sstables) > 0
    /\ Engine_batch_put(Cur, memtable_size, <<1, 2>>, <<1>>).status
          = "ValueError"

\* A thread inside the locked part of its call owns the lock.
LockHeldInside ==
    \A t \in Threads : pc[t] \in {"loop", "logged", "reading"} => lock = t

\* C11: no get or get_range of the reader thread sees a batch_put of
\* another thread half done, some of its keys with their new values and
\* others without.
C11_BatchAtomicToReaders == seen # "torn"

\* The reader has called while a writer is inside a batch_put with one of
\* two entries stored; the reader waits for the lock.
C11_Witness ==
    /\ pc[Reader] = "wait"
    /\ \E t \in Writers : TornView(t) /\ lock = t

IsPrefix(a, b) == Len(a) <= Len(b) /\ SubSeq(b, 1, Len(a)) = a

\* The value of the last record of key k in a record sequence: None when
\* there is none or when it is a delete.
RECURSIVE LastWritten(_, _)
LastWritten(order, k) ==
    IF order = <<>> THEN None
    ELSE IF Last(order).key = k THEN Last(order).value
    ELSE LastWritten(Front(order), k)

\* C12: the MemTable updates are applied in the order of the WAL records,
\* and once every writer thread has returned each key reads back what the
\* last record of the key in WAL order wrote (absent for a delete).
C12_WritersLinearizable ==
    /\ IsPrefix(mem_order, wal_order)
    /\ (\A t \in Writers : pc[t] = "done")
          => \A k \in Keys : Engine_get(Cur, k) = LastWritten(wal_order, k)

\* The first half of C12 alone.
WalOrderIsMemTableOrder == IsPrefix(mem_order, wal_order)

\* The engines a put, delete or batch_put can be called on: this one, and
\* one reopened with any memtable_size on the directory of this one.
Callable ==
    {[engine |-> Cur, max_size |-> memtable_size]}
    \cup {[engine |-> Reopened, max_size |-> ms] : ms \in 1..MaxMemtableSize}

\* C13: when a put, delete or batch_put returns successfully, the memtable
\* holds at most memtable_size entries, on this engine and on an engine
\* reopened with any memtable_size on the WAL of this one.
C13_MemTableBound ==
    \A e \in Callable :
        LET Bounded(out) ==
              out.status = "ok" => Len(out.state.memtable) <= e.max_size
        IN  /\ \A k \in Keys :
                  /\ Bounded(Engine_put(e.engine, e.max_size, k, 1, "ok"))
                  /\ Bounded(Engine_delete(e.engine, e.max_size, k, "ok"))
            /\ \A ks \in Batches(Keys) :
                  Bounded(Engine_batch_put(e.engine, e.max_size, ks,
                                           [j \in DOMAIN ks |-> 1]))

\* An engine recovered from a WAL whose records fill the memtable: the next
\* put flushes it.
C13_Witness ==
    /\ faults = 1
    /\ Len(memtable) >= memtable_size
    /\ \A k \in Keys :
          Len(Engine_put(Cur, memtable_size, k, 1, "ok").state.memtable) = 0

\* The SSTable file the flush of engine s writes is whole in the directory
\* of instant x.
FlushedFileWhole(s, x) ==
    LET sstable_path == FileName(ReadClock(s.clock), FALSE)
    IN  /\ sstable_path \in DOMAIN x.files
        /\ x.files[sstable_path] = SSTable_lines(MemTable_get_all(s.memtable))

FlushedFileListed(s, x) ==
    \E i \in 1..Len(x.sstables) :
        x.sstables[i].file_path = FileName(ReadClock(s.clock), FALSE)

\* WAL.replay on the WAL of instant x returns a record that stores entry e
\* (a put of its value, or a delete for a tombstone).
InWal(e, x) ==
    LET operations == WAL_replay(x.wal)
    IN  \E i \in 1..Len(operations) :
            /\ operations[i].key = e.key
            /\ e.value = IF operations[i].operation = "delete" THEN None
                         ELSE operations[i].value

\* At every instant of a flush at which the WAL is no longer what it was,
\* the new SSTable file is whole and in the engine's list.
FlushTruncatesLast ==
    \A x \in FlushInstants(Cur) :
        x.wal # wal => FlushedFileWhole(Cur, x) /\ FlushedFileListed(Cur, x)

\* C14: in a flush (of the engine as it is now) the new SSTable file is
\* whole and in the sstables list before the WAL is truncated, and at every
\* instant of the flush each entry of the memtable being flushed is in the
\* WAL or in the whole new SSTable file.
C14_FlushOrdering ==
    \A x \in FlushInstants(Cur) :
        /\ x.wal # wal => FlushedFileWhole(Cur, x) /\ FlushedFileListed(Cur, x)
        /\ \A i \in 1..Len(memtable) :
              InWal(memtable[i], x) \/ FlushedFileWhole(Cur, x)

\* C15: delete(k) returns without error whether or not k is in any layer;
\* where the delete did not fill the memtable, the WAL ends with the delete
\* record and the memtable holds the tombstone; and a second delete(k) right
\* after it leaves every get and get_range as the first left them.
C15_DeleteIdempotent ==
    \A k \in Keys :
        LET once == Engine_delete(Cur, memtable_size, k, "ok")
            twice == Engine_delete(once.state, memtable_size, k, "ok")
        IN  /\ once.status = "ok" /\ twice.status = "ok"
            /\ once.state.memtable # <<>>
                  => /\ Last(once.state.wal) = WalLine("delete", k, None, TRUE)
                     /\ [key |-> k, value |-> None]
                            \in SeqRange(once.state.memtable)
            /\ Reads(twice.state) = Reads(once.state)

\* C16: the records of WAL.replay applied to the empty memtable and then
\* applied again leave the memtable of the first application, for every
\* content of the WAL; so the memtable of an engine on which
\* _recover_from_wal ran any number of times is that of one run.
C16_ReplayIdempotent ==
    LET once == Engine_recover_from_wal(<<>>, wal)
    IN  /\ Engine_recover_from_wal(once, wal) = once
        /\ memtable = <<>> \/ memtable = once

\* A recovered memtable from a WAL of MaxReplay records in which a key is
\* written twice with different values.
C16_Witness ==
    /\ memtable # <<>>
    /\ Len(WAL_replay(wal)) = MaxReplay
    /\ \E i \in 1..Len(wal), j \in 1..Len(wal) :
          i < j /\ wal[i].key = wal[j].key /\ wal[i].value # wal[j].value
    /\ memtable = Engine_recover_from_wal(memtable, wal)

\* C17: a flush that takes the sstables list over CompactionThreshold ends
\* with a list of exactly one SSTable, the compacted one, and with none of
\* the SSTable files of before, nor the file the flush itself wrote, left
\* in the directory.
C17_CompactionOnThreshold ==
    (Len(memtable) > 0 /\ Len(sstables) + 1 > CompactionThreshold)
        => LET after == Engine_flush_memtable(Cur)
           IN  /\ Len(after.sstables) = 1
               /\ Compacted(after.sstables[1])
               /\ DOMAIN after.files = {after.sstables[1].file_path}
               /\ \A i \in 1..Len(sstables) :
                     sstables[i].file_path \notin DOMAIN after.files
               /\ FileName(ReadClock(clock), FALSE) \notin DOMAIN after.files

\* An engine that started on CompactionThreshold SSTables after the flush
\* of a put that compacted them: one compacted file, written at the second
\* clock reading.
C17_Witness ==
    /\ Len(sstables) = 1
    /\ Compacted(sstables[1])
    /\ sstables[1].file_path = FileName(ReadClock(ReadClock(0)), TRUE)
    /\ DOMAIN files = {sstables[1].file_path}
    /\ Len(files[sstables[1].file_path]) = MaxKey

\* C18: a key whose last acknowledged mutation is a delete is absent from
\* the engine reopened after a kill: get returns None for it and no
\* get_range holds it, whether or not a value of the key was flushed to an
\* SSTable before the delete.
C18_DeleteSurvivesKill ==
    LET reopened == Reopened
    IN  \A k \in Keys :
            last[k].op = "delete"
                => /\ Engine_get(reopened, k) = None
                   /\ \A lo \in Keys, hi \in Keys :
                         k \notin RangeKeys(Engine_get_range(reopened, lo, hi))

\* The well-formed requests of the client library: every command with
\* non-null arguments, batches of lists of one length, deletes of keys the
\* database holds.
WellFormedRequests ==
    {Client_put_request(k, v) : k \in Keys, v \in Values}
    \cup {Client_get_request(k) : k \in Keys}
    \cup {Client_get_range_request(lo, hi) : lo \in Keys, hi \in Keys}
    \cup {Client_delete_request(k) : k \in DOMAIN cache}
    \cup {Client_ping_request}

WellFormedBatches ==
    UNION {{Client_batch_put_request(ks, vs) :
                vs \in {q \in Batches(Values) : Len(q) = Len(ks)}}
           : ks \in Batches(Keys)}

\* C19: over a connection to a server on the database as it is, the server
\* answers every well-formed request of the client library with status ok,
\* client.put(k, v) returns True and a client.get(k) that follows it
\* returns v, and client.ping() returns True.
C19_ClientServerRoundTrip ==
    /\ \A request \in WellFormedRequests :
          Server_process_request(KvCur, request).response.status = "ok"
    /\ \A request \in WellFormedBatches :
          Server_process_request(KvCur, request).response.status = "ok"
    /\ \A k \in Keys, v \in Values :
          LET stored == Client_put(KvCur, k, v)
          IN  /\ stored.result = TRUE
              /\ Client_get(stored.state, k).result = v
    /\ Client_ping(KvCur).result = TRUE

\* C20: a key whose last mutation through KeyValueDB is a put that returned
\* True reads back the value of that put, in the process that made the put
\* and in every process that opened the directory after a kill since.
C20_PutSurvivesReopens ==
    \A k \in Keys :
        acked[k].op = "put" => KeyValueDB_read(KvCur, k) = acked[k].value

\* The engine a new process constructs on the directory engine s leaves.
ReopenedFrom(s) == Engine_init(s.wal, s.files, s.clock)

\* C21: close() leaves the MemTable and the WAL empty, and the engine
\* reopened on the directory answers every get and every get_range as the
\* engine answered just before close().
C21_CloseRoundTrip ==
    LET closed == Engine_close(Cur)
    IN  /\ closed.memtable = <<>>
        /\ closed.wal = <<>>
        /\ Reads(ReopenedFrom(closed)) = Reads(Cur)

\* C22: when the process dies inside a flush after the new SSTable file was
\* written and before the WAL was truncated, the reopened engine lists that
\* SSTable, holds the replay of the WAL in its MemTable, and answers every
\* get and get_range as the engine answered before the flush began.
C22_FlushCrashTolerated ==
    \A d \in FlushKillBeforeClear(Cur) :
        LET reopened == Engine_init(d.wal, d.files, d.clock)
        IN  /\ FileName(d.clock, FALSE) \in
                  {reopened.sstables[i].file_path :
                      i \in 1..Len(reopened.sstables)}
            /\ reopened.memtable = Engine_recover_from_wal(<<>>, wal)
            /\ Reads(reopened) = Reads(Cur)

\* C23: constructing an engine on the directory leaves wal.log and the
\* SSTable files as they are and keeps the whole replay in the MemTable,
\* full or not; an engine constructed on the directory right after it has
\* the same MemTable and the same SSTable list.
C23_RecoveryLeavesDisk ==
    LET once == Engine_init(wal, files, clock)
        twice == Engine_init(once.wal, once.files, once.clock)
    IN  /\ once.wal = wal
        /\ once.files = files
        /\ Len(once.sstables) = Cardinality(DOMAIN files)
        /\ once.memtable = Engine_recover_from_wal(<<>>, wal)
        /\ twice.memtable = once.memtable
        /\ twice.sstables = once.sstables

\* An engine restarted on a WAL whose replay fills the MemTable: it is
\* full and not flushed, and the WAL still holds the records.
C23_Witness ==
    /\ faults > 0
    /\ wal # <<>>
    /\ memtable = Engine_recover_from_wal(<<>>, wal)
    /\ MemTable_is_full(memtable, memtable_size)

\* The lines of w that fail to parse.
Unparseable(w) == {i \in 1..Len(w) : w[i].operation = "garbage"}

\* C24: WAL.replay returns the records of the file in the order of the
\* file, all of them when every line parses, and otherwise exactly those
\* before the first line that fails to parse.
C24_ReplayUpToTornLine ==
    LET bad == Unparseable(wal)
    IN  IF bad = {} THEN WAL_replay(wal) = wal
        ELSE LET first == CHOOSE i \in bad : \A j \in bad : i <= j
             IN  WAL_replay(wal) = SubSeq(wal, 1, first - 1)

\* A recovery that ran on a WAL with records before and after a line that
\* fails to parse.
C24_Witness ==
    /\ \E i \in Unparseable(wal) :
          /\ 1 < i
          /\ i < Len(wal)
          /\ Unparseable(wal) = {i}
    /\ memtable # <<>>
    /\ memtable = Engine_recover_from_wal(<<>>, wal)

\* A line that fails to parse is followed by a line that parses.
MidFileCorruption(w) ==
    \E i \in Unparseable(w) :
        \E j \in (i + 1)..Len(w) : w[j].operation # "garbage"

\* C25: constructing an engine on a WAL in which a line that fails to parse
\* is followed by a well-formed record ends in an error, or else the
\* recovered MemTable is that of all the well-formed records, the later
\* ones included.
C25_MidFileCorruptionDetected ==
    MidFileCorruption(wal)
        => LET out == Engine_init_outcome(wal, files, clock)
           IN  \/ out.status # "ok"
               \/ out.state.memtable = ApplyOperations(
                      <<>>, SelectSeq(wal, LAMBDA l : l.operation # "garbage"))

\* C26: under a clock that may tie, every step of the engine leaves every
\* SSTable file of the directory as it was or removes it, and gives a file
\* it creates a generation greater than that of every SSTable of the list.
C26_GenerationsIncrease ==
    [][\A n \in DOMAIN files' :
          /\ n \in DOMAIN files => files'[n] = files[n]
          /\ n \notin DOMAIN files =>
                \A i \in 1..Len(sstables) : sstables[i].file_path[1] < n[1]]_vars

\* The generations of a list of SSTables increase along the list.
OldestToNewest(ssts) ==
    \A i \in 1..Len(ssts), j \in 1..Len(ssts) :
        i < j => ssts[i].file_path[1] < ssts[j].file_path[1]

\* C27: the sstables list is ordered oldest to newest by generation; the
\* list _load_sstables builds on the directory is ordered so too and is
\* the engine's list, so that after a restart get finds in the SSTables
\* what it finds now.
C27_SSTableListOrder ==
    LET loaded == Engine_load_sstables(files)
    IN  /\ OldestToNewest(sstables)
        /\ OldestToNewest(loaded)
        /\ loaded = sstables
        /\ \A k \in Keys :
              NewestFirst(files, loaded, k) = NewestFirst(files, sstables, k)

\* An engine restarted on what a kill inside a compaction left: the
\* compacted file and SSTables older than it, two of them with different
\* values of one key.
C27_Witness ==
    /\ faults > 0
    /\ Len(sstables) > 1
    /\ Compacted(Last(sstables))
    /\ \E i \in 1..Len(sstables), j \in 1..Len(sstables), k \in Keys :
          /\ i < j
          /\ SSTable_get(files, sstables[i], k) # None
          /\ SSTable_get(files, sstables[j], k) # None
          /\ SSTable_get(files, sstables[i], k) # SSTable_get(files, sstables[j], k)

\* C28: at every instant of a compaction at which a file of an old SSTable
\* is gone from the directory, the compacted file is whole in the directory
\* and the engine's sstables list is the list of the compacted SSTable
\* alone.
C28_UnlinkAfterSwap ==
    LET compacted_path == FileName(ReadClock(clock), TRUE)
        lines == SSTable_lines(CompactedData(files, sstables))
    IN  \A inst \in CompactInstants(Cur) :
            (\E i \in 1..Len(sstables) :
                sstables[i].file_path \notin DOMAIN inst.files)
            => /\ compacted_path \in DOMAIN inst.files
               /\ inst.files[compacted_path] = lines
               /\ Len(inst.sstables) = 1
               /\ inst.sstables[1].file_path = compacted_path

\* The first half of it: the compacted file is whole before any unlink.
CompactedWholeBeforeUnlink ==
    LET compacted_path == FileName(ReadClock(clock), TRUE)
        lines == SSTable_lines(CompactedData(files, sstables))
    IN  \A inst \in CompactInstants(Cur) :
            (\E i \in 1..Len(sstables) :
                sstables[i].file_path \notin DOMAIN inst.files)
            => /\ compacted_path \in DOMAIN inst.files
               /\ inst.files[compacted_path] = lines

\* C29: at every instant of a kill inside _compact_sstables_internal, the
\* engine reopened on the directory answers every get and every get_range
\* as the engine answered before the compaction started.
C29_CompactionCrashTolerated ==
    LET before == Reads(Cur)
    IN  \A d \in CompactKill(Cur) :
            Reads(Engine_init(d.wal, d.files, d.clock)) = before

\* The lines of the one SSTable file of an engine that has just compacted.
CompactionOutput(s) == s.files[s.sstables[1].file_path]

\* C30: the file a compaction of two or more SSTables writes holds, for
\* every key of the index of some input SSTable, exactly one record with
\* the value of the newest input that has the key, or no record when that
\* value is the tombstone; it holds no other key and no tombstone.
C30_CompactionOutput ==
    Len(sstables) >= 2
        => LET out == CompactionOutput(Engine_compact_sstables_internal(Cur))
           IN  /\ \A j \in 1..Len(out) : out[j].value # None
               /\ \A k \in Keys :
                     LET holders == {i \in 1..Len(sstables) :
                                        k \in DOMAIN sstables[i].index}
                         records == {j \in 1..Len(out) : out[j].key = k}
                     IN  IF holders = {} THEN records = {}
                         ELSE LET newest == CHOOSE i \in holders :
                                                \A h \in holders : h <= i
                                  entry == SSTable_get(files,
                                                       sstables[newest], k)
                              IN  IF entry = None THEN records = {}
                                  ELSE /\ Cardinality(records) = 1
                                       /\ \A j \in records :
                                             out[j].value = entry

\* An engine after a compaction that kept one key and dropped the other,
\* whose last mutation was a delete.
C30_Witness ==
    /\ Len(sstables) = 1
    /\ Compacted(sstables[1])
    /\ Len(CompactionOutput(Cur)) = 1
    /\ \E k \in Keys :
          /\ last[k].op = "delete"
          /\ k \notin DictKeys(CompactionOutput(Cur))
          /\ ~InMemtable(k)

\* C31: a batch_put whose WAL.append raises at an entry after the first
\* ends in that exception and leaves no trace: every get and get_range
\* answers as before the call, on this engine and on an engine constructed
\* on the directory after a crash.
C31_FailedBatchNoTrace ==
    \A ks \in Batches(Keys), vs \in Batches(AnyValue), f \in WalOutcomes :
        Len(ks) = Len(vs) =>
            \A i \in 2..Len(ks) :
                LET out == Engine_batch_put_wal_error(Cur, memtable_size,
                                                      ks, vs, i, f)
                IN  /\ out.status = "WalError"
                    /\ Reads(out.state) = Reads(Cur)
                    /\ Reads(ReopenedFrom(out.state)) = Reads(Reopened)

\* The engine after a flush of state s went through: the MemTable and the
\* WAL empty and a file written after s in the SSTable list (the flushed
\* file, or the compacted file the flush went on to write).
FlushedAgain(s, after) ==
    /\ after.memtable = <<>> /\ after.wal = <<>>
    /\ \E i \in 1..Len(after.sstables) :
          /\ after.sstables[i].file_path[1] > s.clock
          /\ after.sstables[i].file_path \in DOMAIN after.files

\* A failed SSTable.write of a flush left the engine as it was: MemTable,
\* WAL, SSTable list, the listed files and every read.
FlushFailureHarmless(s, before, out) ==
    /\ out.status = "OSError"
    /\ out.state.memtable = s.memtable
    /\ out.state.wal = s.wal
    /\ out.state.sstables = s.sstables
    /\ Reads(out.state) = before
    /\ \A k \in Keys, v \in Values :
          LET stored == Engine_put_stored(out.state, k, v)
          IN  MemTable_is_full(stored.memtable, memtable_size)
                => FlushedAgain(stored,
                       Engine_put(out.state, memtable_size, k, v, "ok").state)

\* A failed SSTable.write of a compaction left every file of the directory
\* in place with its contents, and the SSTable list, the MemTable, the WAL
\* and every read as they were.
CompactionFailureHarmless(s, before, out) ==
    /\ out.status = "OSError"
    /\ \A n \in DOMAIN s.files :
          n \in DOMAIN out.state.files /\ out.state.files[n] = s.files[n]
    /\ out.state.sstables = s.sstables
    /\ out.state.memtable = s.memtable /\ out.state.wal = s.wal
    /\ Reads(out.state) = before

\* C32: when SSTable.write raises during a flush (of a put, a delete or a
\* close), the MemTable, the WAL and the SSTable list are as they were at
\* the start of the flush, every read answers as before, and the next put
\* that finds the MemTable full flushes it; when SSTable.write raises during
\* a compaction, every old file is still there with its contents, the
\* SSTable list is unchanged and every read answers as before.
C32_WriteFailureHarmless ==
    /\ \A k \in Keys, v \in AnyValue :
          LET stored == Engine_put_stored(Cur, k, v)
              before == Reads(stored)
          IN  \A out \in Engine_put_write_error(Cur, memtable_size, k, v) :
                  FlushFailureHarmless(stored, before, out)
    /\ \A k \in Keys :
          LET stored == Engine_delete_stored(Cur, k)
              before == Reads(stored)
          IN  \A out \in Engine_delete_write_error(Cur, memtable_size, k) :
                  FlushFailureHarmless(stored, before, out)
    /\ LET before == Reads(Cur)
       IN  /\ \A out \in Engine_close_write_error(Cur) :
                 FlushFailureHarmless(Cur, before, out)
           /\ \A out \in Engine_compact_write_error(Cur) :
                 CompactionFailureHarmless(Cur, before, out)
    /\ \A k \in Keys, v \in AnyValue :
          LET flushed == Engine_flush_memtable_only(
                             Engine_put_stored(Cur, k, v))
              before == Reads(flushed)
          IN  \A out \in Engine_put_compact_error(Cur, memtable_size, k, v) :
                  CompactionFailureHarmless(flushed, before, out)

\* An engine in which a flush failed with part of its file written (the
\* file is in the directory and not in the list, the MemTable still full)
\* and which has two SSTables whose compaction can fail.
C32_Witness ==
    /\ faults > 0
    /\ MemTable_is_full(memtable, memtable_size)
    /\ Len(sstables) >= 2
    /\ \E n \in DOMAIN files :
          /\ \A i \in 1..Len(sstables) : sstables[i].file_path # n
          /\ files[n] # <<>>
          /\ Len(files[n]) < Len(memtable)
    /\ Engine_compact_write_error(Cur) # {}

\* C33: the lookup of a layer tells a tombstone from no record: MemTable.get
\* of a key the MemTable holds as a tombstone answers differently from the
\* get of a MemTable that never saw the key, SSTable.get of a key whose line
\* is a tombstone answers differently from the get of a key the file does
\* not hold, and SSTable.get_range yields the tombstone entry.
C33_ThreeWayLookup ==
    /\ \A k \in Keys :
          (InMemtable(k) /\ DictGet(memtable, k) = None)
              => MemTable_get(memtable, k) #
                     MemTable_get(MemTable_clear(memtable), k)
    /\ \A i \in 1..Len(sstables) : \A k \in DOMAIN sstables[i].index :
          LET sst == sstables[i]
              line == files[sst.file_path][sst.index[k]]
          IN  line.value = None
                => /\ SSTable_get(files, sst, k) #
                          SSTable_get(WriteFile(files, sst.file_path, <<>>),
                                      SSTable(WriteFile(files, sst.file_path,
                                                        <<>>),
                                              sst.file_path), k)
                   /\ k \in RangeKeys(SSTable_get_range(files, sst, k, k))

\* C34: a put, a batch_put or a delete of KeyValueDB whose WAL write fails
\* returns False and leaves the cache as it was.
C34_AcknowledgesOnlyLogged ==
    LET Refused(out) == out.result = FALSE /\ out.state.cache = cache
    IN  /\ \A k \in Keys, v \in Values :
              \A out \in KeyValueDB_put_wal_error(KvCur, k, v) : Refused(out)
        /\ \A ks \in Batches(Keys), vs \in Batches(Values) :
              \A out \in KeyValueDB_batch_put_wal_error(KvCur, ks, vs) :
                  Refused(out)
        /\ \A k \in Keys :
              \A out \in KeyValueDB_delete_wal_error(KvCur, k) : Refused(out)

\* Each key at most once, the keys ascending.
UniqueAscending(items) == IsSortedStrict(items)

\* C35: the MemTable holds each key at most once with its keys ascending,
\* and stays so after one more put or delete; a put after a delete leaves the
\* key with the put value, a delete after a put leaves it as a tombstone;
\* every SSTable file of the directory holds each key at most once in
\* ascending key order.
C35_UniqueAndOrdered ==
    /\ UniqueAscending(memtable)
    /\ \A k \in Keys, v \in AnyValue :
          LET stored == MemTable_put(memtable, k, v)
              deleted == MemTable_delete(memtable, k)
              restored == MemTable_put(deleted, k, v)
              masked == MemTable_delete(stored, k)
          IN  /\ UniqueAscending(stored) /\ UniqueAscending(deleted)
              /\ UniqueAscending(restored) /\ UniqueAscending(masked)
              /\ DictKeys(stored) = DictKeys(memtable) \cup {k}
              /\ DictKeys(restored) = DictKeys(memtable) \cup {k}
              /\ DictKeys(masked) = DictKeys(memtable) \cup {k}
              /\ MemTable_get(restored, k) = v
              /\ MemTable_get(masked, k) = None
              /\ MemTable_get_range(masked, k, k) = <<>>
    /\ \A n \in DOMAIN files : UniqueAscending(files[n])

\* A MemTable of two keys, one of them a tombstone, next to a listed
\* SSTable of two lines and a compacted SSTable.
C35_Witness ==
    /\ Len(memtable) = 2
    /\ \E i \in 1..2 : memtable[i].value = None
    /\ \E i \in 1..Len(sstables) : Len(files[sstables[i].file_path]) = 2
    /\ \E n \in DOMAIN files : n[2]

\* C36: between two calls, replaying wal.log into an empty MemTable gives
\* the engine's MemTable, tombstones included, and the WAL is empty whenever
\* the MemTable is.
C36_WalMirrorsMemTable ==
    /\ Engine_recover_from_wal(MemTable_clear(memtable), wal) = memtable
    /\ (memtable = <<>> => wal = <<>>)

\* C37: for every key k and bounds lo <= k <= hi, get_range(lo, hi) holds
\* the pair (k, v) exactly when get(k) returns the non-null value v, and
\* holds no pair of k exactly when get(k) returns None.
C37_GetAndRangeAgree ==
    \A lo \in Keys, hi \in Keys :
        LET range == Engine_get_range(Cur, lo, hi)
        IN  \A k \in lo..hi :
                LET value == Engine_get(Cur, k)
                IN  /\ \A v \in Values :
                          (\E i \in 1..Len(range) :
                                range[i] = [key |-> k, value |-> v])
                              <=> value = v
                    /\ k \notin RangeKeys(range) <=> value = None

\* An engine whose MemTable holds a tombstone of a key a listed SSTable
\* holds with a value, next to a key read from the MemTable.
C37_Witness ==
    /\ \E k \in Keys :
          /\ InMemtable(k) /\ DictGet(memtable, k) = None
          /\ \E i \in 1..Len(sstables) :
                SSTable_get(files, sstables[i], k) # None
    /\ \E k \in Keys : MemTable_get(memtable, k) # None
    /\ Len(Engine_get_range(Cur, 1, MaxKey)) = MaxKey

\* C38: in a run without kills the SSTable list holds at most ten SSTables
\* between two calls: the flush that makes it longer compacts it to one
\* before the call returns.
C38_BoundedSSTableCount == Len(sstables) <= CompactionThreshold

\* The flush of a put on a list of ten SSTables took it to eleven and ran
\* the compaction: the list holds the one compacted SSTable, written at the
\* second reading of the clock after the ten.
C38_Witness ==
    /\ Len(sstables) = 1
    /\ sstables[1].file_path = FileName(ReadClock(ReadClock(0)), TRUE)
    /\ \A n \in DOMAIN files : n = sstables[1].file_path

\* A step that appends to the WAL or updates the MemTable, and so takes the
\* WAL's or the MemTable's lock, is taken by the thread that owns the
\* engine's lock.
InnerLocksInsideEngineLock ==
    (wal' # wal \/ memtable' # memtable)
        => lock # Free /\ pc[lock] \in {"loop", "logged"}

\* C39: every call of a thread returns (a thread that waits for the engine's
\* lock gets it and comes back to the caller); the flush inside a mutation
\* enters the engine's lock again without waiting; the WAL and the
\* MemTable are touched only by the owner of the engine's lock.
C39_NoDeadlock ==
    /\ \A t \in Threads : (pc[t] = "wait") ~> (pc[t] \in {"idle", "done"})
    /\ []LockHeldInside
    /\ [][InnerLocksInsideEngineLock]_vars

\* A writer owns the lock at the flush of a full MemTable while the other
\* writer and the reader wait for the lock.
C39_Witness ==
    /\ pc[Reader] = "wait"
    /\ \E t \in Writers, u \in Writers :
          /\ t # u
          /\ lock = t /\ pc[t] = "loop" /\ call[t].i > Len(call[t].keys)
          /\ MemTable_is_full(memtable, memtable_size)
          /\ pc[u] = "wait"

\* C40: a get or a get_range leaves the MemTable, the WAL, the SSTable
\* list and every SSTable file as they were, also on a full MemTable: it
\* runs no flush and no compaction.
C40_ReadsArePure ==
    /\ \A k \in Keys : Engine_get_call(Cur, k).state = Cur
    /\ \A lo \in Keys, hi \in Keys :
          Engine_get_range_call(Cur, lo, hi).state = Cur

\* An engine constructed on the directory of a killed process, whose replay
\* left the MemTable full, with an SSTable in its list.
C40_Witness ==
    /\ faults > 0
    /\ memtable # <<>>
    /\ MemTable_is_full(memtable, memtable_size)
    /\ Len(sstables) > 0
    /\ \E k \in Keys : Engine_get_call(Cur, k).result # None

====
